---------------------------- MODULE Spec2Model ----------------------------
(***************************************************************************)
(* Model of the marketplace integration and synchronisation core of the    *)
(* WB/Ozon seller bot:                                                     *)
(*   - scheduler_tasks.py : the new-order poll cycle                       *)
(*   - db_functions.py    : order dedup / persistence, product upsert      *)
(*   - wb_api.py, ozon_api.py : the _make_request retry engine             *)
(* Python strings are sequences of one-character strings, so that strip,   *)
(* lower, upper and slicing are computed and not assumed.                  *)
(***************************************************************************)
EXTENDS Integers, Sequences, FiniteSets, Bags, TLC

VARIABLES
    \* ---- persistence and poll cycle (scheduler_tasks.py, db_functions.py)
    dialect,      \* engine.dialect.name
    orders,       \* the orders table: a sequence of rows, id = position
    notified,     \* dedup keys for which a new-order notification was sent
    renotified,   \* dedup keys for which a notification was sent again
    cyc,          \* cyc[c]: position of poll cycle instance c in check_new_orders_task
    task,         \* task[c][mp]: position of _process_wb_orders / _process_ozon_orders
    prevRun,      \* prevRun[<<tg_id, mp>>]: the last completed run for that user and marketplace
    cycles,       \* number of poll cycles started
    \* ---- products table (db_functions.py)
    products,     \* the products table: a sequence of rows
    lastCall,     \* the last product upsert call and its arguments
    \* ---- request engine (wb_api.py, ozon_api.py)
    req,          \* the state of one _make_request call
    \* ---- adapters (wb_api.py, ozon_api.py)
    pg,           \* the state of one pagination loop of an adapter
    \* ---- helper functions (reports.py, scheduler_tasks.py, *_api.py)
    fx,           \* one application of a helper function: its argument and result
    \* ---- scheduled jobs over the users (scheduler_tasks.py)
    job,          \* one run of a scheduled job: the user it is at, the parts of the
                  \* user's processing, the permits of the send semaphore
    snd,          \* the callers of safe_send_message across jobs and handlers, and
                  \* the permits of the semaphore they share
    \* ---- database sessions (db_functions.py)
    tx,           \* two sessions that run the same batch call side by side
    \* ---- user settings (db_functions.py)
    tax_rate_default  \* User.tax_rate_default of the user of the product calls

pollVars == <<orders, notified, renotified, cyc, task, prevRun, cycles>>
prodVars == <<products, lastCall>>
reqVars  == <<req>>
auxVars  == <<pg, fx, job, snd, tx, tax_rate_default>>
vars == <<dialect, orders, notified, renotified, cyc, task, prevRun, cycles,
          products, lastCall, req, pg, fx, job, snd, tx,
          tax_rate_default>>

-----------------------------------------------------------------------------
(* Bounds of the model *)

MaxFetch == 2        \* orders returned to one run of a marketplace task
MaxCycles == 2       \* poll cycles started in one behaviour

-----------------------------------------------------------------------------
(* Python values and string helpers *)

PyNone == [t |-> "none"]
PyStr(s) == [t |-> "str", v |-> s]
PyInt(n) == [t |-> "int", v |-> n]

Min(a, b) == IF a <= b THEN a ELSE b
Max(a, b) == IF a >= b THEN a ELSE b

LowerLetters == <<"a","b","c","d","e","f","g","h","i","j","k","l","m",
                  "n","o","p","q","r","s","t","u","v","w","x","y","z">>
UpperLetters == <<"A","B","C","D","E","F","G","H","I","J","K","L","M",
                  "N","O","P","Q","R","S","T","U","V","W","X","Y","Z">>

LowerChar(ch) ==
    IF \E i \in 1..Len(UpperLetters) : UpperLetters[i] = ch
    THEN LowerLetters[CHOOSE i \in 1..Len(UpperLetters) : UpperLetters[i] = ch]
    ELSE ch

UpperChar(ch) ==
    IF \E i \in 1..Len(LowerLetters) : LowerLetters[i] = ch
    THEN UpperLetters[CHOOSE i \in 1..Len(LowerLetters) : LowerLetters[i] = ch]
    ELSE ch

Lower(s) == [i \in 1..Len(s) |-> LowerChar(s[i])]
Upper(s) == [i \in 1..Len(s) |-> UpperChar(s[i])]

RECURSIVE LStrip(_)
LStrip(s) == IF s # <<>> /\ Head(s) = " " THEN LStrip(Tail(s)) ELSE s

RECURSIVE RStrip(_)
RStrip(s) ==
    IF s # <<>> /\ s[Len(s)] = " " THEN RStrip(SubSeq(s, 1, Len(s) - 1)) ELSE s

Strip(s) == RStrip(LStrip(s))

Slice(s, n) == SubSeq(s, 1, Min(n, Len(s)))

DigitChars == <<"0","1","2","3","4","5","6","7","8","9">>

RECURSIVE NatToStr(_)
NatToStr(n) ==
    IF n < 10 THEN <<DigitChars[n + 1]>>
    ELSE NatToStr(n \div 10) \o <<DigitChars[(n % 10) + 1]>>

\* str(value) for the value kinds that occur
Str(value) ==
    CASE value.t = "str" -> value.v
      [] value.t = "int" -> IF value.v < 0 THEN <<"-">> \o NatToStr(-value.v)
                            ELSE NatToStr(value.v)
      [] OTHER -> <<"N","o","n","e">>

\* Python truthiness
Truthy(value) ==
    CASE value.t = "none" -> FALSE
      [] value.t = "str" -> value.v # <<>>
      [] value.t = "int" -> value.v # 0
      [] OTHER -> TRUE

\* a or b
PyOr(a, b) == IF Truthy(a) THEN a ELSE b

SafeStr(value, max_len, default) ==
    LET s0 == IF value.t # "none" THEN Strip(Str(value)) ELSE default
        s1 == IF s0 = <<>> THEN default ELSE s0
    IN  Slice(s1, max_len)

WB == <<"w","b">>
OZON == <<"o","z","o","n">>

NormMarketplace(value) ==
    LET s == Lower(Strip(Str(PyOr(value, PyStr(<<>>)))))
    IN  IF s \in {<<"w","i","l","d","b","e","r","r","i","e","s">>, WB, <<"w">>} THEN WB
        ELSE IF s \in {OZON, <<"o","3">>, <<"o">>} THEN OZON
        ELSE s


-----------------------------------------------------------------------------
(* database.py: schema; db_functions.py: orders *)

Dialects == {"sqlite", "mysql"}

\* _supports_on_conflict()
SupportsOnConflict(d) == d \in {"sqlite", "postgresql", "postgres"}

\* Columns of class Order
OrderColumns ==
    {"id", "order_id", "marketplace", "amount", "item_name", "created_at", "user_id"}

\* Column names bulk_save_orders passes to insert(Order).values(...) and to Order(...)
OrderInsertKeys ==
    {"order_id", "marketplace", "amount", "item_name", "user_id", "order_date"}

\* insert(Order).values(**kw) compiles, and Order(**kw) constructs, only when every
\* keyword is a column of the model; otherwise SQLAlchemy raises.
InsertAccepted(keys) == keys \subseteq OrderColumns

OrderIdMaxLen == 128

OrderKey(r) == <<r.order_id, r.marketplace, r.user_id>>

HasOrder(tbl, oid, mp, uid) ==
    \E i \in 1..Len(tbl) : OrderKey(tbl[i]) = <<oid, mp, uid>>

\* A lookup on order_id and marketplace alone
IsOrderNew_IgnoresUser(tbl, order_id, marketplace, user_tg_id) ==
    LET oid == SafeStr(order_id, OrderIdMaxLen, <<>>)
        mp  == NormMarketplace(marketplace)
    IN  IF oid = <<>> \/ mp = <<>> THEN FALSE
        ELSE ~ \E i \in 1..Len(tbl) : tbl[i].order_id = oid /\ tbl[i].marketplace = mp

\* is_order_new(order_id, marketplace, user_tg_id=...)
IsOrderNew(tbl, order_id, marketplace, user_tg_id) ==
    LET oid == SafeStr(order_id, OrderIdMaxLen, <<>>)
        mp  == NormMarketplace(marketplace)
    IN  IF oid = <<>> \/ mp = <<>> THEN FALSE
        ELSE ~HasOrder(tbl, oid, mp, user_tg_id)

\* int(uid) for an int or a string of decimal digits; ok = FALSE is ValueError
RECURSIVE IntOfDigits(_)
IntOfDigits(s) ==
    IF s = <<>> THEN 0
    ELSE IntOfDigits(SubSeq(s, 1, Len(s) - 1)) * 10
         + ((CHOOSE k \in 1..Len(DigitChars) : DigitChars[k] = s[Len(s)]) - 1)

PyIntOf(uid) ==
    IF uid.t = "int" THEN [ok |-> TRUE, v |-> uid.v]
    ELSE IF /\ uid.t = "str"
            /\ uid.v # <<>>
            /\ \A i \in 1..Len(uid.v) : \E k \in 1..Len(DigitChars) : DigitChars[k] = uid.v[i]
         THEN [ok |-> TRUE, v |-> IntOfDigits(uid.v)]
         ELSE [ok |-> FALSE, v |-> 0]

\* One iteration of the loop of bulk_save_orders on the session's view of the table.
\* Result: [ok |-> FALSE] when the statement raised, else the new view.
SaveOneOrder(d, tbl, o) ==
    LET oid == SafeStr(o.order_id, OrderIdMaxLen, <<>>)
        mp  == NormMarketplace(o.marketplace)
        uid == o.user_id
        row == [order_id |-> oid, marketplace |-> mp, user_id |-> PyIntOf(uid).v]
    IN  IF oid = <<>> \/ mp = <<>> \/ uid.t = "none"
        THEN [ok |-> TRUE, tbl |-> tbl]
        ELSE IF ~PyIntOf(uid).ok
        THEN [ok |-> FALSE, tbl |-> tbl]
        ELSE IF SupportsOnConflict(d)
        THEN IF ~InsertAccepted(OrderInsertKeys)
             THEN [ok |-> FALSE, tbl |-> tbl]
             ELSE IF HasOrder(tbl, oid, mp, uid.v)
                  THEN [ok |-> TRUE, tbl |-> tbl]
                  ELSE [ok |-> TRUE, tbl |-> Append(tbl, row)]
        ELSE IF HasOrder(tbl, oid, mp, uid.v)
             THEN [ok |-> TRUE, tbl |-> tbl]
             ELSE IF ~InsertAccepted(OrderInsertKeys)
                  THEN [ok |-> FALSE, tbl |-> tbl]
                  ELSE [ok |-> TRUE, tbl |-> Append(tbl, row)]

RECURSIVE SaveOrdersLoop(_, _, _)
SaveOrdersLoop(d, tbl, rows) ==
    IF rows = <<>> THEN [ok |-> TRUE, tbl |-> tbl]
    ELSE LET r == SaveOneOrder(d, tbl, Head(rows))
         IN  IF r.ok THEN SaveOrdersLoop(d, r.tbl, Tail(rows)) ELSE r

\* bulk_save_orders(orders_data): commit on success, rollback on any exception
BulkSaveOrders(d, tbl, orders_data) ==
    IF orders_data = <<>> THEN tbl
    ELSE LET r == SaveOrdersLoop(d, tbl, orders_data)
         IN  IF r.ok THEN r.tbl ELSE tbl

-----------------------------------------------------------------------------
(* scheduler_tasks.py: check_new_orders_task *)

\* The users table read by _load_users_for_tasks
Users == <<
    [tg_id |-> 1, wb_token |-> PyStr(<<"t">>), ozon_client_id |-> PyStr(<<"c">>),
     ozon_api_key |-> PyStr(<<"k">>), notifications_enabled |-> TRUE],
    [tg_id |-> 2, wb_token |-> PyStr(<<"t"," ">>), ozon_client_id |-> PyStr(<<" ">>),
     ozon_api_key |-> PyNone, notifications_enabled |-> TRUE],
    [tg_id |-> 3, wb_token |-> PyStr(<<"t">>), ozon_client_id |-> PyNone,
     ozon_api_key |-> PyNone, notifications_enabled |-> FALSE] >>

Inst == {1, 2}          \* poll cycle instances that may be in progress
MPs == {WB, OZON}

\* Order ids as the marketplaces send them
RawIds == {PyNone, PyInt(7), PyStr(<<"7"," ">>)}

\* The order objects a marketplace list may hold
FetchedOrders(mp, phase) ==
    IF mp = WB /\ phase = "fbs" THEN {[id |-> v] : v \in RawIds}
    ELSE IF mp = WB THEN {[gNumber |-> v, orderId |-> w] : v \in {PyNone, PyStr(<<"7">>)},
                                                          w \in {PyNone, PyInt(7)}}
    ELSE {[order_id |-> v] : v \in RawIds}

\* order_id = _safe_str(...) in the three loops
ExtractOrderId(mp, phase, order) ==
    IF mp = WB /\ phase = "fbs" THEN SafeStr(order.id, OrderIdMaxLen, <<>>)
    ELSE IF mp = WB THEN SafeStr(PyOr(order.gNumber, order.orderId), OrderIdMaxLen, <<>>)
    ELSE SafeStr(order.order_id, OrderIdMaxLen, <<>>)

\* A check that lets every user through
_notifications_enabled_Always(user) == TRUE

_notifications_enabled(user) == user.notifications_enabled

\* (user.x or "").strip()
Cred(value) == Strip(Str(PyOr(value, PyStr(<<>>))))

\* The tasks check_new_orders_task builds for a user
TasksFor(user) ==
    (IF Cred(user.wb_token) # <<>> THEN {WB} ELSE {})
    \cup (IF Cred(user.ozon_client_id) # <<>> /\ Cred(user.ozon_api_key) # <<>>
          THEN {OZON} ELSE {})

OffTask == [pc |-> "off", user |-> 0, phase |-> "fbs", n |-> 0,
            to_save |-> <<>>, fetched |-> {}]

NoRun == [ran |-> FALSE, fetched |-> {}]

RunKeys == {<<Users[i].tg_id, mp>> : i \in 1..Len(Users), mp \in MPs}

-----------------------------------------------------------------------------
(* Poll cycle actions *)

Idle(c) == cyc[c].pc = "idle"

othersUnchanged == UNCHANGED <<dialect, products, lastCall, req, auxVars>>

\* The scheduler starts check_new_orders_task. With exclusive = TRUE the job runs
\* under max_instances = 1 (main.py); with FALSE a second instance may overlap.
StartCycle(c, exclusive) ==
    /\ Idle(c)
    /\ cycles < MaxCycles
    /\ exclusive => c = 1
    /\ cyc' = [cyc EXCEPT ![c] = [pc |-> "users", ui |-> 1]]
    /\ cycles' = cycles + 1
    /\ UNCHANGED <<orders, notified, renotified, task, prevRun>>
    /\ othersUnchanged

\* for user in users: disabled notifications or no credentials -> next user
SkipUser(c) ==
    /\ cyc[c].pc = "users"
    /\ cyc[c].ui <= Len(Users)
    /\ LET user == Users[cyc[c].ui]
       IN  ~_notifications_enabled(user) \/ TasksFor(user) = {}
    /\ cyc' = [cyc EXCEPT ![c].ui = @ + 1]
    /\ UNCHANGED <<orders, notified, renotified, task, prevRun, cycles>>
    /\ othersUnchanged

\* tasks.append(...) for each marketplace with credentials; asyncio.gather(*tasks)
LaunchUser(c) ==
    /\ cyc[c].pc = "users"
    /\ cyc[c].ui <= Len(Users)
    /\ LET user == Users[cyc[c].ui]
       IN  /\ _notifications_enabled(user)
           /\ TasksFor(user) # {}
           /\ task' = [task EXCEPT ![c] =
                          [mp \in MPs |->
                              IF mp \in TasksFor(user)
                              THEN [OffTask EXCEPT !.pc = "start", !.user = user.tg_id]
                              ELSE OffTask]]
    /\ cyc' = [cyc EXCEPT ![c].pc = "gather"]
    /\ UNCHANGED <<orders, notified, renotified, prevRun, cycles>>
    /\ othersUnchanged

\* get_all_orders(days=1) returned its dict; the FBS loop starts
Fetch(c, mp) ==
    /\ task[c][mp].pc = "start"
    /\ task' = [task EXCEPT ![c][mp].pc = "loop", ![c][mp].phase = "fbs"]
    /\ UNCHANGED <<orders, notified, renotified, cyc, prevRun, cycles>>
    /\ othersUnchanged

\* One iteration of "for order in list": the order id is extracted, is_order_new
\* consulted and, for a new order, safe_send_message awaited and the order
\* appended to to_save.
NextOrder(c, mp) ==
    /\ task[c][mp].pc = "loop"
    /\ task[c][mp].n < MaxFetch
    /\ \E order \in FetchedOrders(mp, task[c][mp].phase) :
         LET t == task[c][mp]
             order_id == ExtractOrderId(mp, t.phase, order)
             seen == IF order_id = <<>> THEN t.fetched ELSE t.fetched \cup {order_id}
             new == order_id # <<>> /\ IsOrderNew(orders, PyStr(order_id), PyStr(mp), t.user)
             key == <<order_id, mp, t.user>>
         IN  /\ notified' = IF new THEN notified \cup {key} ELSE notified
             /\ renotified' = IF new /\ key \in notified THEN renotified \cup {key}
                              ELSE renotified
             /\ task' = [task EXCEPT ![c][mp] =
                    [t EXCEPT !.n = @ + 1,
                              !.fetched = seen,
                              !.to_save = IF new
                                          THEN Append(@, [order_id |-> PyStr(order_id),
                                                          marketplace |-> PyStr(mp),
                                                          user_id |-> PyInt(t.user)])
                                          ELSE @]]
    /\ UNCHANGED <<orders, cyc, prevRun, cycles>>
    /\ othersUnchanged

\* The current list is exhausted: WB goes from FBS to FBO; after the last list
\* "if to_save: await dbf.bulk_save_orders(to_save)".
EndList(c, mp) ==
    /\ task[c][mp].pc = "loop"
    /\ LET t == task[c][mp]
       IN  task' = [task EXCEPT ![c][mp] =
              IF mp = WB /\ t.phase = "fbs" THEN [t EXCEPT !.phase = "fbo"]
              ELSE [t EXCEPT !.pc = IF t.to_save # <<>> THEN "save" ELSE "done"]]
    /\ UNCHANGED <<orders, notified, renotified, cyc, prevRun, cycles>>
    /\ othersUnchanged

Save(c, mp) ==
    /\ task[c][mp].pc = "save"
    /\ orders' = BulkSaveOrders(dialect, orders, task[c][mp].to_save)
    /\ task' = [task EXCEPT ![c][mp].pc = "done"]
    /\ UNCHANGED <<notified, renotified, cyc, prevRun, cycles>>
    /\ othersUnchanged

\* asyncio.gather returns when every task of the user has returned
JoinUser(c) ==
    /\ cyc[c].pc = "gather"
    /\ \A mp \in MPs : task[c][mp].pc \in {"off", "done"}
    /\ prevRun' = [k \in RunKeys |->
                     IF task[c][k[2]].pc = "done" /\ task[c][k[2]].user = k[1]
                     THEN [ran |-> TRUE, fetched |-> task[c][k[2]].fetched]
                     ELSE prevRun[k]]
    /\ task' = [task EXCEPT ![c] = [mp \in MPs |-> OffTask]]
    /\ cyc' = [cyc EXCEPT ![c] = [pc |-> "users", ui |-> @.ui + 1]]
    /\ UNCHANGED <<orders, notified, renotified, cycles>>
    /\ othersUnchanged

\* The loop over users is over: check_new_orders_task returns
EndCycle(c) ==
    /\ cyc[c].pc = "users"
    /\ cyc[c].ui > Len(Users)
    /\ cyc' = [cyc EXCEPT ![c] = [pc |-> "idle", ui |-> 0]]
    /\ UNCHANGED <<orders, notified, renotified, task, prevRun, cycles>>
    /\ othersUnchanged

-----------------------------------------------------------------------------
(* Initial state and specifications *)

NoCall == [op |-> "none"]
NoSleep == [attempt |-> 0, cause |-> "none", header |-> PyNone, secs |-> 0]
NoReq == [pc |-> "off", client |-> "none", max_retries |-> 0, attempt |-> 0,
          nreq |-> 0, nsleeps |-> 0, last |-> NoSleep, prev |-> NoSleep,
          outcome |-> "none", result |-> "none", transient_only |-> TRUE]

InitPoll ==
    /\ orders = <<>>
    /\ notified = {}
    /\ renotified = {}
    /\ cyc = [c \in Inst |-> [pc |-> "idle", ui |-> 0]]
    /\ task = [c \in Inst |-> [mp \in MPs |-> OffTask]]
    /\ prevRun = [k \in RunKeys |-> NoRun]
    /\ cycles = 0

InitProducts ==
    /\ products = <<>>
    /\ lastCall = NoCall

InitRequest == req = NoReq

NoLoop == [op |-> "none", pc |-> "off", page |-> 0, payload |-> PyNone,
           sent |-> PyNone, got |-> [n |-> 0, token |-> PyNone], result |-> "none"]

InitAdapters == pg = NoLoop

NoFx == [f |-> "none", arg |-> PyNone, out |-> PyNone, done |-> FALSE]

InitFunctions == fx = NoFx

\* asyncio.Semaphore(SEM_LIMIT)
SEM_LIMIT == 5

\* The parts of one user's processing: the two marketplaces and the report
\* message that send_morning_report sends after both
Units == <<"wb", "ozon", "report">>

NoUnit == [i |-> 1, phase |-> "run", attempt |-> 1, held |-> 0, failed |-> "none"]

NoJob == [name |-> "none", pc |-> "off", ui |-> 0, processed |-> {}, sem |-> SEM_LIMIT,
          unit |-> [u \in {"wb", "ozon", "report"} |-> NoUnit]]

InitJobs == job = NoJob

\* Coroutines that may call safe_send_message at the same time
MaxCallers == 6

Callers == 1..MaxCallers

NoCaller == [pc |-> "idle", attempt |-> 1, held |-> 0]

InitSenders == snd = [sem |-> SEM_LIMIT, caller |-> [c \in Callers |-> NoCaller]]

\* "async with async_session() as session" of two callers of one batch call
Sessions == {1, 2}

NoSession == [pc |-> "idle", i |-> 1, view |-> <<>>, added |-> {}, touched |-> {}]

NoTx == [op |-> "none", rows |-> <<>>, before |-> <<>>, n |-> 0,
         s |-> [w \in Sessions |-> NoSession]]

InitSessions == tx = NoTx

\* database.py: tax_rate_default = mapped_column(Float, default=0.06), in 1/10000
InitSettings == tax_rate_default = 600

Init ==
    /\ dialect \in Dialects
    /\ InitPoll
    /\ InitProducts
    /\ InitRequest
    /\ InitAdapters
    /\ InitFunctions
    /\ InitJobs
    /\ InitSenders
    /\ InitSessions
    /\ InitSettings

\* The poll job as main.py schedules it: one instance at a time
Next ==
    \E c \in Inst :
        \/ StartCycle(c, TRUE)
        \/ SkipUser(c)
        \/ LaunchUser(c)
        \/ JoinUser(c)
        \/ EndCycle(c)
        \/ \E mp \in MPs :
              \/ Fetch(c, mp)
              \/ NextOrder(c, mp)
              \/ EndList(c, mp)
              \/ Save(c, mp)

Spec == Init /\ [][Next]_vars

\* Two overlapping poll cycles (two bot processes on one database)
NextConcurrent ==
    \E c \in Inst :
        \/ StartCycle(c, FALSE)
        \/ SkipUser(c)
        \/ LaunchUser(c)
        \/ JoinUser(c)
        \/ EndCycle(c)
        \/ \E mp \in MPs :
              \/ Fetch(c, mp)
              \/ NextOrder(c, mp)
              \/ EndList(c, mp)
              \/ Save(c, mp)

SpecConcurrent == Init /\ [][NextConcurrent]_vars

-----------------------------------------------------------------------------
(* Claims about the poll cycle and order dedup *)

\* Rows of the orders table stored under the dedup key of saved order o
RowsFor(o) ==
    {i \in 1..Len(orders) :
        OrderKey(orders[i]) = <<o.order_id.v, NormMarketplace(o.marketplace), o.user_id.v>>}

\* C1: when a run of a marketplace task for a user saw the same order set as the
\* previous completed run for that user and marketplace, it sends no new-order
\* notification (every notification of a run appends one entry to to_save).
C1_SecondRunSendsNothing ==
    \A c \in Inst, mp \in MPs :
        LET t == task[c][mp]
        IN  (/\ t.pc = "done"
             /\ prevRun[<<t.user, mp>>].ran
             /\ prevRun[<<t.user, mp>>].fetched = t.fetched)
            => t.to_save = <<>>

\* C2: after bulk_save_orders([O, O]) on a table that did not hold O, exactly one
\* row is stored under the key (order_id, marketplace, user_id) of O.
C2_DoubleSaveLeavesOneRow ==
    \A c \in Inst, mp \in MPs :
        LET t == task[c][mp]
        IN  (/\ t.pc = "done"
             /\ Len(t.to_save) = 2
             /\ t.to_save[1] = t.to_save[2])
            => Cardinality(RowsFor(t.to_save[1])) = 1

\* C3: over any sequence of poll cycles no dedup key (order_id, marketplace,
\* user_id) triggers a second new-order notification.
C3_AtMostOneNotificationPerKey == renotified = {}

-----------------------------------------------------------------------------
(* Numbers: a Python float is an integer count of 1/10000, so that 0.06 and  *)
(* x / 100 are exact.                                                       *)

Num(whole, frac) == whole * 10000 + frac
PyNum(x) == [t |-> "num", v |-> x]

IsDigit(ch) == \E i \in 1..Len(DigitChars) : DigitChars[i] = ch
DigitVal(ch) == (CHOOSE i \in 1..Len(DigitChars) : DigitChars[i] = ch) - 1

RECURSIVE RemoveChar(_, _)
RemoveChar(s, ch) ==
    IF s = <<>> THEN <<>>
    ELSE IF Head(s) = ch THEN RemoveChar(Tail(s), ch)
    ELSE <<Head(s)>> \o RemoveChar(Tail(s), ch)

ReplaceChar(s, a, b) == [i \in 1..Len(s) |-> IF s[i] = a THEN b ELSE s[i]]

RECURSIVE DigitsVal(_)
DigitsVal(s) == IF s = <<>> THEN 0 ELSE DigitsVal(SubSeq(s, 1, Len(s) - 1)) * 10 + DigitVal(s[Len(s)])

AllDigits(s) == \A i \in 1..Len(s) : IsDigit(s[i])

\* float(v) for a decimal literal [sign] digits [ "." digits ]; ok = FALSE is ValueError
ParseFloat(v) ==
    LET neg  == v # <<>> /\ Head(v) = "-"
        body == IF v # <<>> /\ Head(v) \in {"-", "+"} THEN Tail(v) ELSE v
        dots == {i \in 1..Len(body) : body[i] = "."}
        dot  == IF dots = {} THEN Len(body) + 1 ELSE CHOOSE i \in dots : TRUE
        ip   == SubSeq(body, 1, dot - 1)
        fp   == SubSeq(body, dot + 1, Len(body))
        fp4  == SubSeq(fp \o <<"0","0","0","0">>, 1, 4)
        ok   == /\ Cardinality(dots) <= 1
                /\ AllDigits(ip) /\ AllDigits(fp)
                /\ ip \o fp # <<>>
        mag  == Num(DigitsVal(ip), DigitsVal(fp4))
    IN  [ok |-> ok, v |-> IF ~ok THEN 0 ELSE IF neg THEN -mag ELSE mag]

\* _safe_float(value, default)
SafeFloat(value, default) ==
    CASE value.t = "none" -> default
      [] value.t = "str" ->
            LET v == ReplaceChar(RemoveChar(Strip(value.v), " "), ",", ".")
            IN  IF v = <<>> THEN default
                ELSE IF ParseFloat(v).ok THEN ParseFloat(v).v ELSE default
      [] value.t = "num" -> value.v
      [] value.t = "int" -> Num(value.v, 0)
      [] OTHER -> default

-----------------------------------------------------------------------------
(* db_functions.py: products *)

\* _norm_article(value)
NormArticle(value) == Upper(Strip(Str(PyOr(value, PyStr(<<>>)))))

NameMaxLen == 255

\* The default name: the word "Tovar" (written in Cyrillic in the source), a
\* space and the article
DefaultName(clean_article) == <<"T","o","v","a","r"," ">> \o clean_article

\* Column defaults of class Product
DefaultTaxRate == Num(0, 600)
DefaultCost == Num(0, 0)

FindProduct(tbl, u, mp, art) ==
    {i \in 1..Len(tbl) : /\ tbl[i].user_tg_id = u
                         /\ tbl[i].marketplace = mp
                         /\ tbl[i].article = art}

\* func.coalesce(func.nullif(excluded, 0), stored)
CoalesceNullifZero_Overwrite(excluded, stored) == excluded

CoalesceNullifZero(excluded, stored) == IF excluded = 0 THEN stored ELSE excluded

\* on_conflict_do_update(set_={...}) of bulk_update_products
BulkConflictSet_KeepNameAndTax(stored, excluded) ==
    [stored EXCEPT
        !.cost_price = CoalesceNullifZero(excluded.cost_price, stored.cost_price),
        !.extra_costs = CoalesceNullifZero(excluded.extra_costs, stored.extra_costs)]

BulkConflictSet(stored, excluded) ==
    [stored EXCEPT
        !.name = excluded.name,
        !.cost_price = CoalesceNullifZero(excluded.cost_price, stored.cost_price),
        !.extra_costs = CoalesceNullifZero(excluded.extra_costs, stored.extra_costs),
        !.tax_rate = excluded.tax_rate]

\* The manual upsert of bulk_update_products (dialects without ON CONFLICT)
BulkManualSet(prod, row) ==
    [prod EXCEPT
        !.name = row.name,
        !.cost_price = IF row.cost_price # 0 THEN row.cost_price ELSE @,
        !.extra_costs = IF row.extra_costs # 0 THEN row.extra_costs ELSE @,
        !.tax_rate = row.tax_rate]

\* tax_rate = _safe_float(...); if tax_rate > 1: /100; if tax_rate < 0: 0
BulkTaxRate(value) ==
    LET t0 == SafeFloat(value, DefaultTaxRate)
        t1 == IF t0 > Num(1, 0) THEN t0 \div 100 ELSE t0
    IN  IF t1 < 0 THEN 0 ELSE t1

IsDict(p) == p.t = "dict"

\* A loop that passes over no element: every dict is built into a row
CleanProduct_NeverSkips(user_tg_id, p) ==
    LET clean_market  == NormMarketplace(p.marketplace)
        clean_article == NormArticle(p.article)
    IN  [skip |-> FALSE,
         row |-> [user_tg_id |-> user_tg_id,
                  marketplace |-> clean_market,
                  article |-> clean_article,
                  name |-> SafeStr(p.name, NameMaxLen, DefaultName(clean_article)),
                  cost_price |-> SafeFloat(p.cost_price, 0),
                  extra_costs |-> SafeFloat(p.extra_costs, 0),
                  tax_rate |-> BulkTaxRate(p.tax_rate)]]

\* The row bulk_update_products builds from one element of products_list;
\* skip = TRUE for the elements the loop passes over with "continue"
CleanProduct(user_tg_id, p) ==
    IF ~IsDict(p) THEN [skip |-> TRUE]
    ELSE LET clean_market  == NormMarketplace(p.marketplace)
             clean_article == NormArticle(p.article)
         IN  IF clean_market = <<>> \/ clean_article = <<>> THEN [skip |-> TRUE]
             ELSE [skip |-> FALSE,
                   row |-> [user_tg_id |-> user_tg_id,
                            marketplace |-> clean_market,
                            article |-> clean_article,
                            name |-> SafeStr(p.name, NameMaxLen, DefaultName(clean_article)),
                            cost_price |-> SafeFloat(p.cost_price, 0),
                            extra_costs |-> SafeFloat(p.extra_costs, 0),
                            tax_rate |-> BulkTaxRate(p.tax_rate)]]

\* Inputs of the product operations

Dict(marketplace, article, name, cost_price, extra_costs, tax_rate) ==
    [t |-> "dict", marketplace |-> marketplace, article |-> article, name |-> name,
     cost_price |-> cost_price, extra_costs |-> extra_costs, tax_rate |-> tax_rate]

\* A row as get_all_products of the API clients builds it: costs 0.0, tax 0.06
AdapterRow == Dict(PyStr(WB), PyStr(<<"a">>), PyStr(<<"N","1">>),
                   PyNum(Num(0, 0)), PyNum(Num(0, 0)), PyNum(Num(0, 600)))

\* Rows as the import and settings handlers build them
UserRow == Dict(PyStr(<<"W","B">>), PyStr(<<" ","A">>), PyNone,
                PyInt(150), PyInt(50), PyInt(20))

OtherRow == Dict(PyStr(WB), PyStr(<<"B">>), PyStr(<<"N","1">>),
                 PyStr(<<"1",",","5">>), PyStr(<<"x">>), PyNum(-Num(0, 600)))

NoArticleRow == Dict(PyStr(WB), PyNone, PyStr(<<"N","1">>),
                     PyInt(150), PyInt(50), PyInt(20))

InputRows == {AdapterRow, UserRow, OtherRow, NoArticleRow}

ProductUser == 1

\* CleanProduct tabulated over the inputs above (evaluated once)
CleanProductTable == [p \in InputRows |-> CleanProduct(ProductUser, p)]

\* An upsert that never finds the stored row
UpsertBulkRow_AlwaysInserts(d, tbl, row) == Append(tbl, row)

UpsertBulkRow(d, tbl, row) ==
    LET hit == FindProduct(tbl, row.user_tg_id, row.marketplace, row.article)
    IN  IF hit = {} THEN Append(tbl, row)
        ELSE [i \in 1..Len(tbl) |->
                IF i \in hit
                THEN IF SupportsOnConflict(d) THEN BulkConflictSet(tbl[i], row)
                     ELSE BulkManualSet(tbl[i], row)
                ELSE tbl[i]]

RECURSIVE BulkUpdateLoop(_, _, _, _, _)
BulkUpdateLoop(d, tbl, user_tg_id, products_list, count) ==
    IF products_list = <<>> THEN [tbl |-> tbl, count |-> count]
    ELSE LET p == Head(products_list)
             c == IF user_tg_id = ProductUser /\ p \in InputRows
                  THEN CleanProductTable[p]
                  ELSE CleanProduct(user_tg_id, p)
         IN  IF c.skip
             THEN BulkUpdateLoop(d, tbl, user_tg_id, Tail(products_list), count)
             ELSE BulkUpdateLoop(d, UpsertBulkRow(d, tbl, c.row), user_tg_id,
                                 Tail(products_list), count + 1)

\* bulk_update_products(user_tg_id, products_list) -> [tbl, count]
BulkUpdateProducts(d, tbl, user_tg_id, products_list) ==
    IF products_list = <<>> THEN [tbl |-> tbl, count |-> 0]
    ELSE BulkUpdateLoop(d, tbl, user_tg_id, products_list, 0)

\* update_product_cost(user_tg_id, marketplace, article, cost, name)
UpdateProductCost(d, tbl, user_tg_id, marketplace, article, cost, name) ==
    LET clean_article == NormArticle(article)
        clean_market  == NormMarketplace(marketplace)
        clean_name    == SafeStr(name, NameMaxLen, DefaultName(clean_article))
        new_cost      == SafeFloat(cost, 0)
        hit == FindProduct(tbl, user_tg_id, clean_market, clean_article)
    IN  IF hit = {}
        THEN Append(tbl, [user_tg_id |-> user_tg_id, marketplace |-> clean_market,
                          article |-> clean_article, name |-> clean_name,
                          cost_price |-> new_cost, extra_costs |-> DefaultCost,
                          tax_rate |-> DefaultTaxRate])
        ELSE [i \in 1..Len(tbl) |->
                IF i \in hit
                THEN IF SupportsOnConflict(d)
                     THEN [tbl[i] EXCEPT !.name = clean_name,
                              !.cost_price = CoalesceNullifZero(new_cost, @)]
                     ELSE [tbl[i] EXCEPT !.name = clean_name,
                              !.cost_price = IF new_cost # 0 THEN new_cost ELSE @]
                ELSE tbl[i]]

-----------------------------------------------------------------------------
(* Calls of the product operations *)

MaxRows == 2

RowLists == UNION {[1..k -> InputRows] : k \in 0..MaxRows}

CostInputs == {PyInt(0), PyStr(<<"1","0","0">>), PyStr(<<"x">>)}
ArticleInputs == {PyStr(<<"a">>)}
NameInputs == {PyNone, PyStr(<<"N","1">>)}

productsOthersUnchanged == UNCHANGED <<dialect, pollVars, req, auxVars>>

CallBulkUpdateProducts ==
    \E products_list \in RowLists :
        LET r == BulkUpdateProducts(dialect, products, ProductUser, products_list)
        IN  /\ products' = r.tbl
            /\ lastCall' = [op |-> "bulk_update_products", user_tg_id |-> ProductUser,
                            products_list |-> products_list, ret |-> r.count,
                            before |-> products]
            /\ productsOthersUnchanged

CallUpdateProductCost ==
    \E article \in ArticleInputs, cost \in CostInputs, name \in NameInputs :
        /\ products' = UpdateProductCost(dialect, products, ProductUser, PyStr(WB),
                                         article, cost, name)
        /\ lastCall' = [op |-> "update_product_cost", user_tg_id |-> ProductUser,
                        marketplace |-> PyStr(WB), article |-> article,
                        cost |-> cost, name |-> name, before |-> products]
        /\ productsOthersUnchanged

NextProducts == CallBulkUpdateProducts \/ CallUpdateProductCost

SpecProducts == Init /\ [][NextProducts]_vars

-----------------------------------------------------------------------------
(* Claims about the product operations *)

MaxOf(S) == CHOOSE x \in S : \A y \in S : y <= x

\* The rows of the table that carry the key of row old
SameKey(tbl, old) == FindProduct(tbl, old.user_tg_id, old.marketplace, old.article)

\* Positions of the last call's list that address the stored row old
Addressing(old) ==
    LET l == lastCall.products_list
    IN  {j \in 1..Len(l) : /\ IsDict(l[j])
                           /\ lastCall.user_tg_id = old.user_tg_id
                           /\ NormMarketplace(l[j].marketplace) = old.marketplace
                           /\ NormArticle(l[j].article) = old.article}

\* The value the rule of the claim leaves in a field: the last non-zero incoming
\* value for the stored row, the stored value when every incoming value is 0
ExpectedAfterBulk(old, field) ==
    LET l  == lastCall.products_list
        nz == {j \in Addressing(old) : SafeFloat(l[j][field], 0) # 0}
    IN  IF nz = {} THEN old[field] ELSE SafeFloat(l[MaxOf(nz)][field], 0)

\* C5: after any sequence of bulk_update_products and update_product_cost calls,
\* for every product stored before the last call, an incoming cost_price (or
\* extra_costs) of 0 left the stored value unchanged and a non-zero incoming
\* value replaced it; update_product_cost leaves extra_costs alone.
C5_ZeroKeepsCostNonZeroReplaces ==
    lastCall.op # "none" =>
        \A i \in 1..Len(lastCall.before) :
            LET old == lastCall.before[i]
                now == SameKey(products, old)
            IN  /\ Cardinality(now) = 1
                /\ \A k \in now :
                    IF lastCall.op = "bulk_update_products"
                    THEN /\ products[k].cost_price = ExpectedAfterBulk(old, "cost_price")
                         /\ products[k].extra_costs = ExpectedAfterBulk(old, "extra_costs")
                    ELSE LET hit == /\ NormMarketplace(lastCall.marketplace) = old.marketplace
                                    /\ NormArticle(lastCall.article) = old.article
                             inc == SafeFloat(lastCall.cost, 0)
                         IN  /\ products[k].cost_price =
                                    IF hit /\ inc # 0 THEN inc ELSE old.cost_price
                             /\ products[k].extra_costs = old.extra_costs

\* A stored cost_price of 100 met a sync of one adapter row (costs 0) and is still 100
C5_Witness ==
    /\ lastCall.op = "bulk_update_products"
    /\ lastCall.products_list = <<AdapterRow>>
    /\ \E i \in 1..Len(lastCall.before) :
          /\ lastCall.before[i].cost_price = Num(100, 0)
          /\ Addressing(lastCall.before[i]) = {1}
          /\ \E k \in SameKey(products, lastCall.before[i]) :
                products[k].cost_price = Num(100, 0)

\* C6: bulk_update_products on an already stored product leaves in name and
\* tax_rate the values of the last incoming row for that product (the name as
\* _safe_str cleans it, the tax rate as the call normalises it), whatever was
\* stored before.
C6_NameAndTaxAlwaysOverwritten ==
    lastCall.op = "bulk_update_products" =>
        \A i \in 1..Len(lastCall.before) :
            LET old == lastCall.before[i]
                adr == Addressing(old)
            IN  adr # {} =>
                    LET p == lastCall.products_list[MaxOf(adr)]
                    IN  \A k \in SameKey(products, old) :
                            /\ products[k].name = SafeStr(p.name, NameMaxLen, DefaultName(old.article))
                            /\ products[k].tax_rate = BulkTaxRate(p.tax_rate)

\* A stored product with another name and tax rate met an adapter row and now
\* carries the adapter row's name and tax rate
C6_Witness ==
    /\ lastCall.op = "bulk_update_products"
    /\ lastCall.products_list = <<AdapterRow>>
    /\ \E i \in 1..Len(lastCall.before) :
          /\ Addressing(lastCall.before[i]) = {1}
          /\ lastCall.before[i].name # AdapterRow.name.v
          /\ lastCall.before[i].tax_rate # AdapterRow.tax_rate.v
          /\ \E k \in SameKey(products, lastCall.before[i]) :
                /\ products[k].name = AdapterRow.name.v
                /\ products[k].tax_rate = AdapterRow.tax_rate.v

-----------------------------------------------------------------------------
(* wb_api.py, ozon_api.py: _make_request *)

MaxRetries == 6
DefaultMaxRetries == 3

Clients == {"wb", "ozon"}

TransientStatuses == {"429", "500", "502", "503", "504"}
AuthStatuses == {"401", "403"}
OtherStatuses == {"400", "404"}

IsTransient_With404(status) == status \in TransientStatuses \cup {"404"}

\* resp.status_code in (429, 500, 502, 503, 504)
IsTransient(status) == status \in TransientStatuses

\* Values of resp.headers.get("Retry-After")
RetryAfterValues ==
    {PyNone, PyStr(<<>>), PyStr(<<"a","b","c">>), PyStr(<<"0">>), PyStr(<<"2",".","5">>),
     PyStr(<<"1","0","0">>), PyStr(<<"i","n","f">>), PyStr(<<"n","a","n">>)}

\* float(s) of a header string: a decimal literal, "inf" or "nan"; ok = FALSE
\* is ValueError
Float(s) ==
    LET v == Lower(Strip(s))
    IN  IF v \in {<<"i","n","f">>, <<"+","i","n","f">>, <<"i","n","f","i","n","i","t","y">>}
        THEN [ok |-> TRUE, kind |-> "inf", v |-> 0]
        ELSE IF v \in {<<"n","a","n">>, <<"+","n","a","n">>, <<"-","n","a","n">>}
        THEN [ok |-> TRUE, kind |-> "nan", v |-> 0]
        ELSE [ok |-> ParseFloat(v).ok, kind |-> "num", v |-> ParseFloat(v).v]

\* base_sleep = 1.0
BaseSleep == Num(1, 0)

\* base_sleep * (2 ** (attempt - 1))
ExponentialBackoff(attempt) == BaseSleep * 2 ^ (attempt - 1)

\* Ozon without Retry-After: base_sleep * (2 ** (attempt - 1))
OzonTransientBackoff(attempt) == BaseSleep * 2 ^ (attempt - 1)

WbTransientBackoff_Exponential(attempt) == BaseSleep * 2 ^ (attempt - 1)

\* WB without Retry-After: min(30.0, 10.0 * attempt)
WbTransientBackoff(attempt) == Min(Num(30, 0), Num(10, 0) * attempt)

Finite(x) == [kind |-> "num", v |-> x]

\* A client that never reads the Retry-After header
TransientBackoff_IgnoresHeader(client, header, attempt) ==
    IF client = "wb" THEN Finite(WbTransientBackoff(attempt))
    ELSE Finite(OzonTransientBackoff(attempt))

\* The sleep chosen for a transient status before the cap is applied
TransientBackoff(client, header, attempt) ==
    IF Truthy(header)
    THEN LET f == Float(header.v)
         IN  IF ~f.ok THEN Finite(ExponentialBackoff(attempt))
             ELSE IF f.kind = "nan" THEN Finite(Num(1, 0))
             ELSE IF f.kind = "inf" THEN [kind |-> "inf", v |-> 0]
             ELSE Finite(Max(Num(1, 0), f.v))
    ELSE IF client = "wb" THEN Finite(WbTransientBackoff(attempt))
         ELSE Finite(OzonTransientBackoff(attempt))

\* The cap of the client: min(sleep_s, 60.0) in WB, min(sleep_s, 20.0) in Ozon
SleepCap(client) == IF client = "wb" THEN Num(60, 0) ELSE Num(20, 0)

CappedSleep_NoCap(client, x) == x.v

\* sleep_s = min(sleep_s, cap)
CappedSleep(client, x) ==
    IF x.kind = "inf" THEN SleepCap(client) ELSE Min(x.v, SleepCap(client))

NetworkBackoff_SameAsTransient(attempt) == ExponentialBackoff(attempt)

\* min(base_sleep * (2 ** (attempt - 1)), 10.0)
NetworkBackoff(attempt) == Min(ExponentialBackoff(attempt), Num(10, 0))

AttemptRange_OneMore(max_retries) == 1..(max_retries + 1)

\* range(1, self.max_retries + 1)
AttemptRange(max_retries) == 1..max_retries

requestOthersUnchanged == UNCHANGED <<dialect, pollVars, prodVars, auxVars>>

\* The call starts: the first iteration of the loop sends a request, and a
\* loop with no iterations returns None
CallMakeRequest ==
    \E client \in Clients, max_retries \in 0..MaxRetries :
        /\ req.pc \in {"off", "returned"}
        /\ req' = IF 1 \in AttemptRange(max_retries)
                  THEN [NoReq EXCEPT !.pc = "request", !.client = client,
                                     !.max_retries = max_retries, !.attempt = 1]
                  ELSE [NoReq EXCEPT !.pc = "returned", !.client = client,
                                     !.max_retries = max_retries, !.result = "None"]
        /\ requestOthersUnchanged

Return(outcome, result) ==
    req' = [req EXCEPT !.pc = "returned", !.nreq = @ + 1, !.outcome = outcome,
                       !.result = result, !.transient_only = FALSE]

\* The sleep followed a transient status that carried no Retry-After value
NoRetryAfter(sl) == IsTransient(sl.cause) /\ ~Truthy(sl.header)

Sleep(cause, header, secs) ==
    req' = [req EXCEPT !.pc = "sleep", !.nreq = @ + 1, !.nsleeps = @ + 1,
                       !.outcome = cause,
                       !.prev = IF NoRetryAfter(req.last) THEN req.last ELSE NoSleep,
                       !.last = [attempt |-> req.attempt, cause |-> cause,
                                 header |-> header, secs |-> secs]]

\* 200: resp.json() is returned, None when the body does not decode
Response200 ==
    \E decodable \in BOOLEAN :
        /\ req.pc = "request"
        /\ IF decodable THEN Return("200", "json") ELSE Return("200-undecodable", "None")
        /\ requestOthersUnchanged

\* 401 / 403
ResponseAuth ==
    \E status \in AuthStatuses :
        /\ req.pc = "request"
        /\ Return(status, "None")
        /\ requestOthersUnchanged

\* A status that is neither 200, 401, 403 nor transient returns None; a
\* transient status sleeps and continues
ResponseStatus ==
    \E status \in TransientStatuses \cup OtherStatuses, header \in RetryAfterValues :
        /\ req.pc = "request"
        /\ IF IsTransient(status)
           THEN Sleep(status, header,
                      CappedSleep(req.client, TransientBackoff(req.client, header, req.attempt)))
           ELSE /\ header = PyNone
                /\ Return(status, "None")
        /\ requestOthersUnchanged

\* httpx.TimeoutException / httpx.NetworkError
NetworkFailure ==
    /\ req.pc = "request"
    /\ Sleep("network", PyNone, NetworkBackoff(req.attempt))
    /\ requestOthersUnchanged

\* Any other exception inside the loop body
UnexpectedError ==
    /\ req.pc = "request"
    /\ Return("error", "None")
    /\ requestOthersUnchanged

\* The sleep is over: "continue" enters the next iteration, or leaves the loop
\* and returns None
Continue ==
    /\ req.pc = "sleep"
    /\ req' = IF req.attempt + 1 \in AttemptRange(req.max_retries)
              THEN [req EXCEPT !.pc = "request", !.attempt = @ + 1]
              ELSE [req EXCEPT !.pc = "returned", !.result = "None"]
    /\ requestOthersUnchanged

NextRequest ==
    \/ CallMakeRequest
    \/ Response200
    \/ ResponseAuth
    \/ ResponseStatus
    \/ NetworkFailure
    \/ UnexpectedError
    \/ Continue

SpecRequest == Init /\ [][NextRequest]_vars

-----------------------------------------------------------------------------
(* Claims about _make_request *)

TerminalOutcomes == {"200-undecodable"} \cup AuthStatuses \cup OtherStatuses

\* C7: a call in which every attempt ended in a transient status or a network
\* error has made exactly max_retries requests when it returns, and it returns
\* None; no call ever makes more than max_retries requests.
C7_ExactlyMaxRetriesThenNone ==
    /\ req.nreq <= req.max_retries
    /\ (req.pc = "returned" /\ req.transient_only) =>
            /\ req.nreq = req.max_retries
            /\ req.result = "None"

\* The default budget: three transient attempts, then None
C7_Witness ==
    /\ req.pc = "returned"
    /\ req.transient_only
    /\ req.max_retries = DefaultMaxRetries
    /\ req.nreq = DefaultMaxRetries
    /\ req.last.attempt = DefaultMaxRetries
    /\ req.result = "None"

\* C8: every backoff sleep is at most the cap of the client (60 s in WB, 20 s
\* in Ozon), for every attempt number and every Retry-After value.
C8_SleepNeverExceedsCap ==
    req.nsleeps > 0 =>
        /\ req.last.secs <= SleepCap(req.client)
        /\ req.client = "wb" => req.last.secs <= Num(60, 0)
        /\ req.client = "ozon" => req.last.secs <= Num(20, 0)

\* The third consecutive 503 of a call, with a Retry-After above the cap, slept
\* exactly the cap
C8_Witness ==
    /\ req.nsleeps = 3
    /\ req.last.attempt = 3
    /\ req.last.cause = "503"
    /\ req.last.header = PyStr(<<"1","0","0">>)
    /\ req.last.secs = SleepCap(req.client)

\* C9: a call that ended on an undecodable 200, a 401 or 403, or another
\* non-transient status returned None at that attempt: the attempt was the last
\* request and no sleep followed it (every sleep of the call belongs to an
\* earlier attempt).
C9_TerminalOutcomeEndsCall ==
    req.outcome \in TerminalOutcomes =>
        /\ req.pc = "returned"
        /\ req.result = "None"
        /\ req.nreq = req.attempt
        /\ req.nsleeps = req.attempt - 1
        /\ req.last.attempt < req.attempt

\* A 401 on the second attempt of a budget of three ended the call
C9_Witness ==
    /\ req.pc = "returned"
    /\ req.outcome = "401"
    /\ req.max_retries = DefaultMaxRetries
    /\ req.attempt = 2
    /\ req.nreq = 2
    /\ req.nsleeps = 1

\* C10 as stated: between two consecutive transient attempts without
\* Retry-After the delay doubles up to the cap, in both clients.
C10_DelayDoublesInBothClients ==
    (/\ req.nsleeps > 1
     /\ NoRetryAfter(req.last)
     /\ req.prev # NoSleep) =>
        req.last.secs = Min(SleepCap(req.client), 2 * req.prev.secs)

\* C10 amended: without Retry-After the Ozon client sleeps 1 s * 2^(attempt-1)
\* capped at 20 s (it doubles), the WB client sleeps 10 s * attempt capped at
\* 30 s (10, 20, 30, 30, ...: it grows by 10 s per attempt and stops at 30 s,
\* below the 60 s cap of the client).
C10_BackoffWithoutRetryAfter ==
    (req.nsleeps > 0 /\ NoRetryAfter(req.last)) =>
        LET a == req.last.attempt
        IN  /\ req.client = "ozon" => req.last.secs = Min(Num(20, 0), Num(1, 0) * 2 ^ (a - 1))
            /\ req.client = "wb" => req.last.secs = Min(Num(30, 0), Num(10, 0) * a)

\* The WB client slept 20 s and then 30 s on consecutive transient attempts
C10_Witness ==
    /\ req.client = "wb"
    /\ NoRetryAfter(req.last)
    /\ req.last.attempt = 3
    /\ req.last.secs = Num(30, 0)
    /\ req.prev.attempt = 2
    /\ req.prev.secs = Num(20, 0)

\* C11 as stated: the delay slept after a timeout or connection error equals
\* the delay the same client sleeps after a transient status without
\* Retry-After on the same attempt.
C11_NetworkDelayEqualsTransientDelay ==
    (req.nsleeps > 0 /\ req.last.cause = "network") =>
        LET a == req.last.attempt
        IN  /\ req.client = "ozon" => req.last.secs = Min(Num(20, 0), Num(1, 0) * 2 ^ (a - 1))
            /\ req.client = "wb" => req.last.secs = Min(Num(30, 0), Num(10, 0) * a)

\* C11 amended: after a timeout or connection error both clients sleep
\* 1 s * 2^(attempt-1) capped at 10 s. That is the Ozon transient delay only on
\* attempts 1..4 (from attempt 5 on it is shorter), and it is shorter than the
\* WB transient delay on every attempt.
C11_NetworkBackoffSchedule ==
    (req.nsleeps > 0 /\ req.last.cause = "network") =>
        LET a == req.last.attempt
        IN  /\ req.last.secs = Min(Num(10, 0), Num(1, 0) * 2 ^ (a - 1))
            /\ (req.client = "ozon" /\ a <= 4) =>
                    req.last.secs = Min(Num(20, 0), Num(1, 0) * 2 ^ (a - 1))
            /\ (req.client = "ozon" /\ a > 4) =>
                    req.last.secs < Min(Num(20, 0), Num(1, 0) * 2 ^ (a - 1))
            /\ req.client = "wb" => req.last.secs < Min(Num(30, 0), Num(10, 0) * a)

\* The WB client slept 1 s after a network error on the first attempt, where a
\* transient status sleeps 10 s
C11_Witness ==
    /\ req.client = "wb"
    /\ req.last.cause = "network"
    /\ req.last.attempt = 1
    /\ req.last.secs = Num(1, 0)

-----------------------------------------------------------------------------
(* wb_api.py, ozon_api.py: pagination loops of the adapters.  One action is   *)
(* one iteration of a loop: the request, the response the server chooses and *)
(* what the loop does with it.  A list is modelled by its length, -1 for a   *)
(* value that is not a list.  pg.sent is the token of the last request,      *)
(* pg.got what the last response carried, pg.payload the token of the next   *)
(* request.                                                                  *)

MaxReportPages == 3

CardsMaxPages == 200
StockPageLimit == 1000
OzonSearchLimit == 100
OzonSearchPages == 5
WbSearchPages == 10

LoopOps == {"get_cards_list", "get_stock_info", "get_transaction_report",
            "ozon_search_product_position", "wb_search_product_position"}

Cursor(nmID, updatedAt) == [t |-> "cursor", nmID |-> nmID, updatedAt |-> updatedAt]

adaptersOthersUnchanged == UNCHANGED <<dialect, pollVars, prodVars, req, fx, job, snd, tx, tax_rate_default>>

\* The loop starts with the payload of its first request
StartLoop ==
    \E op \in LoopOps :
        /\ pg.pc \in {"off", "done", "raised"}
        /\ pg' = [NoLoop EXCEPT !.op = op, !.pc = "request",
                     !.page = IF op = "get_cards_list" THEN 0 ELSE 1,
                     !.payload = IF op = "get_stock_info" THEN PyStr(<<>>) ELSE PyNone]
        /\ adaptersOthersUnchanged

Finish(sent, got, result) ==
    pg' = [pg EXCEPT !.pc = "done", !.sent = sent, !.got = got, !.result = result]

Raise(sent, got) ==
    pg' = [pg EXCEPT !.pc = "raised", !.sent = sent, !.got = got, !.result = "raised"]

\* Responses to /content/v2/get/cards/list as _make_request returns them
CardsResponses ==
    {[dict |-> FALSE, n |-> 0, token |-> PyNone]} \cup
    [dict : {TRUE}, n : {-1, 0, 1},
     token : {PyNone} \cup {Cursor(nm, upd) : nm \in {PyNone, PyInt(1), PyInt(2)},
                                            upd \in {PyNone, PyStr(<<"t">>)}}]

CursorComplete(token) ==
    /\ token.t = "cursor"
    /\ token.nmID # PyNone
    /\ token.updatedAt # PyNone

\* WildberriesAPI.get_cards_list: one pass of the while loop
CardsPage ==
    /\ pg.op = "get_cards_list" /\ pg.pc = "request"
    /\ LET seen_pages == pg.page + 1
       IN  IF seen_pages > CardsMaxPages
           THEN pg' = [pg EXCEPT !.pc = "done", !.page = seen_pages, !.result = "list"]
           ELSE \E r \in CardsResponses :
                  LET got == [n |-> r.n, token |-> r.token]
                  IN  IF ~r.dict \/ r.n <= 0 \/ ~CursorComplete(r.token)
                      THEN pg' = [pg EXCEPT !.pc = "done", !.page = seen_pages,
                                     !.sent = pg.payload, !.got = got, !.result = "list"]
                      ELSE pg' = [pg EXCEPT !.page = seen_pages, !.sent = pg.payload,
                                     !.got = got, !.payload = r.token]
    /\ adaptersOthersUnchanged

\* Responses of the Ozon endpoints: shape of the body, kind of its "result",
\* length of the list inside, token (last_id) or page_count inside
OzonShapes == {"falsy", "array", "dict"}
ResultKinds == {"missing", "dict", "null", "list"}

StockResponses ==
    [shape : OzonShapes, result : ResultKinds, n : {-1, 0, StockPageLimit - 1, StockPageLimit},
     token : {PyNone, PyStr(<<>>), PyStr(<<"x">>), PyStr(<<"y">>)}]

StopListing_OnlyOnEmptyToken(last_id, n) == ~Truthy(last_id)

\* if not last_id or len(items) < 1000: break
StopListing(last_id, n) == ~Truthy(last_id) \/ n < StockPageLimit

\* OzonAPI.get_stock_info: one pass of the loop over /v3/product/list
StockListPage ==
    /\ pg.op = "get_stock_info" /\ pg.pc = "request"
    /\ \E r \in StockResponses :
         LET sent == IF Truthy(pg.payload) THEN pg.payload ELSE PyNone
             \* list_res.get("result", {}): a missing key gives {}
             inner == IF r.result = "missing" THEN [n |-> 0, token |-> PyStr(<<>>)]
                      ELSE [n |-> IF r.n < 0 THEN 0 ELSE r.n, token |-> r.token]
             got == [n |-> inner.n, token |-> inner.token]
         IN  IF r.shape = "falsy" THEN Finish(sent, [n |-> 0, token |-> PyNone], "list")
             ELSE IF r.shape = "array" \/ r.result \in {"null", "list"}
             THEN Raise(sent, [n |-> 0, token |-> PyNone])
             ELSE IF StopListing(inner.token, inner.n) THEN Finish(sent, got, "list")
             ELSE pg' = [pg EXCEPT !.sent = sent, !.got = got, !.payload = inner.token]
    /\ adaptersOthersUnchanged

\* page_count values of /v3/finance/transaction/list relative to the page asked
\* for: absent, the page itself, one more, not a number
PageCounts == {"absent", "this", "more", "garbled"}

ReportResponses ==
    [shape : OzonShapes, result : ResultKinds, n : {-1, 0, 1}, page_count : PageCounts]

\* OzonAPI.get_transaction_report: one pass of the while loop.  The server
\* announces a further page only below MaxReportPages.
TransactionPage ==
    /\ pg.op = "get_transaction_report" /\ pg.pc = "request"
    /\ \E r \in ReportResponses :
         LET sent == PyInt(pg.page)
             got == [n |-> r.n, token |-> PyStr(<<>>)]
             \* int(result["result"].get("page_count", 1) or 1)
             page_count == CASE r.page_count = "absent" -> 1
                             [] r.page_count = "this" -> pg.page
                             [] OTHER -> pg.page + 1
         IN  /\ r.page_count = "more" => pg.page < MaxReportPages
             /\ IF r.shape \in {"falsy", "array"} \/ r.result = "missing"
                THEN Finish(sent, [n |-> 0, token |-> PyNone], "list")
                ELSE IF r.result \in {"null", "list"} THEN Raise(sent, [n |-> 0, token |-> PyNone])
                ELSE IF r.n <= 0 THEN Finish(sent, got, "list")
                ELSE IF r.page_count = "garbled" THEN Raise(sent, got)
                ELSE IF pg.page >= page_count THEN Finish(sent, got, "list")
                ELSE pg' = [pg EXCEPT !.sent = sent, !.got = got, !.page = @ + 1]
    /\ adaptersOthersUnchanged

SearchResponses ==
    [shape : OzonShapes, result : ResultKinds,
     n : {-1, 0, OzonSearchLimit - 1, OzonSearchLimit}, found : BOOLEAN]

\* OzonAPI.search_product_position: one pass of "for page in range(5)"; pg.page
\* is page + 1
OzonSearchPage ==
    /\ pg.op = "ozon_search_product_position" /\ pg.pc = "request"
    /\ \E r \in SearchResponses :
         LET sent == PyInt((pg.page - 1) * OzonSearchLimit)
             got == [n |-> r.n, token |-> PyNone]
         IN  /\ r.found => r.n > 0
             /\ IF r.shape \in {"falsy", "array"} \/ r.result = "missing"
                THEN Finish(sent, [n |-> 0, token |-> PyNone], "0")
                ELSE IF r.result \in {"null", "list"} THEN Raise(sent, [n |-> 0, token |-> PyNone])
                ELSE IF r.n < 0 THEN Finish(sent, got, "0")
                ELSE IF r.found THEN Finish(sent, got, "position")
                ELSE IF pg.page + 1 > OzonSearchPages THEN Finish(sent, got, "0")
                ELSE pg' = [pg EXCEPT !.sent = sent, !.got = got, !.page = @ + 1]
    /\ adaptersOthersUnchanged

\* Outcomes of one search request of the WB client
WbSearchOutcomes ==
    {"transient", "other-status", "undecodable", "not-dict", "no-products", "page", "found"}

\* WildberriesAPI.search_product_position: one pass of "for page in range(1, 11)"
WbSearchPage ==
    /\ pg.op = "wb_search_product_position" /\ pg.pc = "request"
    /\ \E o \in WbSearchOutcomes :
         LET sent == PyInt(pg.page)
             got == [n |-> IF o \in {"page", "found"} THEN 1 ELSE 0, token |-> PyNone]
         IN  IF o \in {"other-status", "undecodable", "not-dict", "no-products"}
             THEN Finish(sent, got, "0")
             ELSE IF o = "found" THEN Finish(sent, got, "position")
             ELSE IF pg.page + 1 > WbSearchPages THEN Finish(sent, got, "0")
             ELSE pg' = [pg EXCEPT !.sent = sent, !.got = got, !.page = @ + 1]
    /\ adaptersOthersUnchanged

NextPages ==
    \/ StartLoop
    \/ CardsPage
    \/ StockListPage
    \/ TransactionPage
    \/ OzonSearchPage
    \/ WbSearchPage

SpecPages == Init /\ [][NextPages]_vars

\* Every request is answered and every iteration of a loop completes: an HTTP
\* call is bounded by its timeout and its retry budget
SpecPagesFair == SpecPages /\ WF_vars(NextPages)

-----------------------------------------------------------------------------
(* Claims about the pagination loops *)

\* C12: get_cards_list stops as soon as a response carries no complete cursor
\* or carries the cursor that was just sent: it is never about to request a
\* page with the cursor of the request before.
C12_StopsOnAbsentOrUnchangedCursor ==
    (pg.op = "get_cards_list" /\ pg.page >= 1 /\ pg.pc = "request") =>
        /\ CursorComplete(pg.got.token)
        /\ pg.got.token # pg.sent
        /\ pg.payload # pg.sent

\* C13: every pagination loop that has started a request eventually ends,
\* whatever the server answers.
C13_EveryPaginationLoopTerminates ==
    [](pg.pc = "request" => <>(pg.pc \in {"done", "raised"}))

\* C14: after a page of /v3/product/list, get_stock_info has stopped when the
\* page held fewer than 1000 items or an empty last_id, and otherwise it is
\* about to request the next page with the last_id just returned.
C14_StockListingStopsOrFollowsLastId ==
    pg.op = "get_stock_info" =>
        /\ (pg.pc = "request" /\ Truthy(pg.payload)) =>
                /\ pg.got.n >= 1000
                /\ pg.got.token # PyStr(<<>>) /\ pg.got.token # PyNone
                /\ pg.payload = pg.got.token
        /\ pg.pc = "done" => (pg.got.n < 1000 \/ pg.got.token \in {PyStr(<<>>), PyNone})

\* A full second page: the request carried the last_id of the first page and
\* the next one will carry the last_id of the second
C14_Witness ==
    /\ pg.op = "get_stock_info"
    /\ pg.pc = "request"
    /\ pg.sent = PyStr(<<"x">>)
    /\ pg.got = [n |-> 1000, token |-> PyStr(<<"y">>)]
    /\ pg.payload = PyStr(<<"y">>)

\* C15: OzonAPI.search_product_position is never about to request a further
\* offset after a page of fewer than 100 items.
C15_NoRequestAfterShortPage ==
    (pg.op = "ozon_search_product_position" /\ pg.page > 1 /\ pg.pc = "request") =>
        pg.got.n >= 100

-----------------------------------------------------------------------------
(* reports.py, scheduler_tasks.py, wb_api.py, ozon_api.py: helper functions *)

\* The marker for a missing article or name (written in Cyrillic in the source)
NA == <<"N", "/", "D">>

\* The default product name of _extract_name_from_wb (Cyrillic in the source)
Tovar == <<"T", "o", "v", "a", "r">>

ArticleMaxLen == 128

\* A key the dict does not hold
Absent == [t |-> "absent"]

\* item.get(key)
Get(item, k) == IF item[k] = Absent THEN PyNone ELSE item[k]

\* Candidate keys, in the order the loops try them; an item is the sequence of
\* the values it holds under these keys
PriceKeys == <<"finishedPrice", "priceWithDisc", "forPay", "totalPrice", "price">>
ArticleKeys == <<"nmId", "nmID", "supplierArticle", "article", "vendorCode">>
NameKeys == <<"subject", "brand", "name", "title">>

\* reports._extract_price_from_wb_sale: the first key the item holds decides
RECURSIVE ExtractPriceFrom(_, _)
ExtractPriceFrom(item, k) ==
    IF k > Len(PriceKeys) THEN 0
    ELSE IF item[k] # Absent THEN SafeFloat(Get(item, k), 0)
    ELSE ExtractPriceFrom(item, k + 1)

ExtractPriceFromWbSale(item) == ExtractPriceFrom(item, 1)

\* reports._norm_article
ReportsNormArticle(value) == Upper(Strip(SafeStr(value, ArticleMaxLen, NA)))

\* reports._extract_article_from_wb: v not in (None, "", NA)
RECURSIVE ExtractArticleFrom(_, _)
ExtractArticleFrom(item, k) ==
    IF k > Len(ArticleKeys) THEN NA
    ELSE LET v == Get(item, k)
         IN  IF v \notin {PyNone, PyStr(<<>>), PyStr(NA)} THEN ReportsNormArticle(v)
             ELSE ExtractArticleFrom(item, k + 1)

ExtractArticleFromWb(item) == ExtractArticleFrom(item, 1)

\* reports._extract_name_from_wb: if v
RECURSIVE ExtractNameFrom(_, _)
ExtractNameFrom(item, k) ==
    IF k > Len(NameKeys) THEN Tovar
    ELSE LET v == Get(item, k)
         IN  IF Truthy(v) THEN SafeStr(v, NameMaxLen, Tovar)
             ELSE ExtractNameFrom(item, k + 1)

ExtractNameFromWb(item) == ExtractNameFrom(item, 1)

IsKopecks_Above(v) == v > Num(50000, 0)

\* if v >= 50000
IsKopecks(v) == v >= Num(50000, 0)

\* scheduler_tasks._wb_price_to_rub
WbPriceToRub(value) ==
    LET v == SafeFloat(value, 0)
    IN  IF v <= 0 THEN 0
        ELSE IF IsKopecks(v) THEN v \div 100
        ELSE v

\* WildberriesAPI._norm_article
WbNormArticle(value) == Strip(SafeStr(value, ArticleMaxLen, <<>>))

\* OzonAPI._norm_article
OzonNormArticle(value) == Upper(SafeStr(value, ArticleMaxLen, <<>>))

\* The article key of FinancialProcessor: p.article and sa_name as they are
FinancialArticleKey(value) == value

\* The article key every module makes of one raw value
ArticleKeysOf(value) ==
    [wb |-> WbNormArticle(value), ozon |-> OzonNormArticle(value),
     db |-> NormArticle(value), reports |-> ReportsNormArticle(value),
     financial |-> FinancialArticleKey(value)]

\* Items: under every candidate key the item holds nothing, None, "" or a value
\* of its own (100 * k for prices, "a<k>" for articles, "n<k>" for names)
ItemShapes(keys) == [1..Len(keys) -> {"absent", "none", "empty", "value"}]

ItemOf(sh, kind) ==
    [k \in 1..Len(sh) |->
        CASE sh[k] = "absent" -> Absent
          [] sh[k] = "none" -> PyNone
          [] sh[k] = "empty" -> PyStr(<<>>)
          [] OTHER -> IF kind = "price" THEN PyInt(100 * k)
                      ELSE IF kind = "article" THEN PyStr(<<"a", DigitChars[k + 1]>>)
                      ELSE PyStr(<<"n", DigitChars[k + 1]>>)]

PriceItems == {ItemOf(sh, "price") : sh \in ItemShapes(PriceKeys)}
ArticleItems ==
    {ItemOf(sh, "article") : sh \in ItemShapes(ArticleKeys)}
        \cup {<<PyStr(<<" ">>), PyStr(<<"a", "2">>), Absent, Absent, Absent>>,
              <<PyInt(0), PyStr(<<"a", "2">>), Absent, Absent, Absent>>}
NameItems ==
    {ItemOf(sh, "name") : sh \in ItemShapes(NameKeys)}
        \cup {<<PyStr(<<" ">>), PyStr(<<"n", "2">>), Absent, Absent>>}

PriceInputs ==
    {PyNone, PyStr(<<"x">>), PyInt(-5), PyInt(0), PyInt(1), PyInt(49999), PyInt(50000),
     PyInt(50001), PyInt(129900), PyNum(Num(49999, 9900)),
     PyStr(<<"1","2","9","9","0","0">>), PyStr(<<"4","9"," ","9","9","9",",","5">>)}

LongArticle == [i \in 1..(ArticleMaxLen + 2) |-> "A"]

RawArticles ==
    {PyNone, PyInt(0), PyInt(123), PyStr(<<>>), PyStr(<<"A","B","1">>),
     PyStr(<<"a","b","1">>), PyStr(<<" ","A","b","1"," ">>), PyStr(LongArticle)}

Call(f, arg) == [f |-> f, arg |-> arg, out |-> PyNone, done |-> FALSE]

FxInputs ==
    {Call("_extract_price_from_wb_sale", i) : i \in PriceItems}
        \cup {Call("_extract_article_from_wb", i) : i \in ArticleItems}
        \cup {Call("_extract_name_from_wb", i) : i \in NameItems}
        \cup {Call("_wb_price_to_rub", v) : v \in PriceInputs}
        \cup {Call("_norm_article", v) : v \in RawArticles}

\* The state in which a helper function is about to be applied to an argument
InitPure ==
    /\ dialect \in Dialects
    /\ InitPoll
    /\ InitProducts
    /\ InitRequest
    /\ InitAdapters
    /\ fx \in FxInputs
    /\ InitJobs
    /\ InitSenders
    /\ InitSessions
    /\ InitSettings

Returns(out) ==
    /\ fx' = [fx EXCEPT !.out = out, !.done = TRUE]
    /\ UNCHANGED <<dialect, pollVars, prodVars, req, pg, job, snd, tx, tax_rate_default>>

ApplyExtractPrice ==
    /\ fx.f = "_extract_price_from_wb_sale" /\ ~fx.done
    /\ Returns(ExtractPriceFromWbSale(fx.arg))

ApplyExtractArticle ==
    /\ fx.f = "_extract_article_from_wb" /\ ~fx.done
    /\ Returns(ExtractArticleFromWb(fx.arg))

ApplyExtractName ==
    /\ fx.f = "_extract_name_from_wb" /\ ~fx.done
    /\ Returns(ExtractNameFromWb(fx.arg))

ApplyWbPriceToRub ==
    /\ fx.f = "_wb_price_to_rub" /\ ~fx.done
    /\ Returns(WbPriceToRub(fx.arg))

ApplyNormArticle ==
    /\ fx.f = "_norm_article" /\ ~fx.done
    /\ Returns(ArticleKeysOf(fx.arg))

NextPure ==
    \/ ApplyExtractPrice
    \/ ApplyExtractArticle
    \/ ApplyExtractName
    \/ ApplyWbPriceToRub
    \/ ApplyNormArticle

SpecPure == InitPure /\ [][NextPure]_vars

-----------------------------------------------------------------------------
(* Claims about the helper functions *)

NonEmpty(v) == v \notin {Absent, PyNone, PyStr(<<>>)}

\* The first candidate that holds a non-empty value, 0 when there is none
FirstNonEmpty(item) ==
    LET hits == {k \in 1..Len(item) : NonEmpty(item[k])}
    IN  IF hits = {} THEN 0 ELSE CHOOSE k \in hits : \A j \in hits : k <= j

\* C16: each extraction returns the value of the first candidate key whose
\* value is non-empty, and the documented default (the N/A marker for article
\* and name, 0 for price) only when no candidate holds a non-empty value.
C16_FirstNonEmptyCandidateWins ==
    fx.done =>
        LET k == FirstNonEmpty(fx.arg)
        IN  /\ fx.f = "_extract_price_from_wb_sale" =>
                fx.out = IF k = 0 THEN 0 ELSE SafeFloat(fx.arg[k], 0)
            /\ fx.f = "_extract_article_from_wb" =>
                fx.out = IF k = 0 THEN NA ELSE Upper(Strip(Str(fx.arg[k])))
            /\ fx.f = "_extract_name_from_wb" =>
                fx.out = IF k = 0 THEN NA ELSE Strip(Str(fx.arg[k]))

\* C17: _wb_price_to_rub maps every number v >= 50000 to v / 100 and every
\* number 0 < v < 50000 to v: 49999 stays 49999, 129900 becomes 1299 and 50000
\* becomes 500.
C17_PriceThreshold ==
    (fx.f = "_wb_price_to_rub" /\ fx.done) =>
        /\ fx.arg.t \in {"int", "num"} =>
              LET v == IF fx.arg.t = "int" THEN Num(fx.arg.v, 0) ELSE fx.arg.v
              IN  /\ v >= Num(50000, 0) => fx.out = v \div 100
                  /\ (0 < v /\ v < Num(50000, 0)) => fx.out = v
        /\ fx.arg = PyInt(49999) => fx.out = Num(49999, 0)
        /\ fx.arg = PyInt(129900) => fx.out = Num(1299, 0)
        /\ fx.arg = PyInt(50000) => fx.out = Num(500, 0)

\* The boundary value 50000 was divided by 100
C17_Witness ==
    /\ fx.f = "_wb_price_to_rub"
    /\ fx.done
    /\ fx.arg = PyInt(50000)
    /\ fx.out = Num(500, 0)

\* C18: for every raw article value the adapters, the sync engine and the
\* financial engine produce the same string: trimmed, uppercased and cut to
\* the same maximum length.
C18_ArticleNormalizedIdentically ==
    (fx.f = "_norm_article" /\ fx.done) =>
        LET expected == Slice(Upper(Strip(Str(PyOr(fx.arg, PyStr(<<>>))))), ArticleMaxLen)
        IN  /\ fx.out.wb = expected
            /\ fx.out.ozon = expected
            /\ fx.out.db = expected
            /\ fx.out.reports = expected
            /\ fx.out.financial = PyStr(expected)

-----------------------------------------------------------------------------
(* Fetch operations of the adapters: what they make of a 200 response whose  *)
(* body has an unexpected structure.  _make_request returns resp.json() as   *)
(* it is, so the body may be a dict, a JSON array, null or any other value.  *)

FetchOps == {"ozon_get_all_orders", "ozon_get_daily_stats",
             "wb_get_all_orders", "wb_get_stock_info"}

StartFetch ==
    \E op \in FetchOps :
        /\ pg.pc \in {"off", "done", "raised"}
        /\ pg' = [NoLoop EXCEPT !.op = op, !.pc = "request", !.page = 1]
        /\ adaptersOthersUnchanged

\* Bodies of the Ozon posting lists: shape of the body, kind of its "result",
\* whether "postings" inside is a list, number of postings
PostingResponses ==
    [shape : OzonShapes, result : ResultKinds, postings : {"list", "other"}, n : {0, 1}]

\* fbs_res.get("result", {}).get("postings", []): a list body has no .get, and
\* neither has a "result" that is null or a list
FbsRaises(r) == r.shape = "array" \/ (r.shape = "dict" /\ r.result \in {"null", "list"})

FbsPostings(r) ==
    IF r.shape = "dict" /\ r.result = "dict" /\ r.postings = "list" THEN r.n ELSE 0

\* fbo_res.get("result", fbo_res): only a list body has no .get
FboRaises(r) == r.shape = "array"

\* data = fbo_res.get("result", fbo_res); a dict gives its "postings", a list
\* is taken as the postings, anything else gives nothing
FboPostings(r) ==
    IF r.shape # "dict" THEN 0
    ELSE CASE r.result = "dict" -> IF r.postings = "list" THEN r.n ELSE 0
           [] r.result = "list" -> r.n
           [] OTHER -> 0

\* OzonAPI.get_all_orders and OzonAPI.get_daily_stats: the FBS request, then
\* the FBO request; pg.got.n counts the postings returned
OzonOrdersFetch ==
    /\ pg.op \in {"ozon_get_all_orders", "ozon_get_daily_stats"} /\ pg.pc = "request"
    /\ \E fbs \in PostingResponses :
         IF FbsRaises(fbs) THEN Raise(PyNone, [n |-> 0, token |-> PyNone])
         ELSE \E fbo \in PostingResponses :
                IF FboRaises(fbo) THEN Raise(PyNone, [n |-> 0, token |-> PyNone])
                ELSE Finish(PyNone, [n |-> FbsPostings(fbs) + FboPostings(fbo),
                                     token |-> PyNone], "dict")
    /\ adaptersOthersUnchanged

\* Bodies of the Wildberries endpoints
WbBodies == [shape : {"none", "dict", "list", "other"}, orders : {"list", "other"}, n : {0, 1}]

\* WildberriesAPI.get_all_orders: isinstance(fbs_res, dict), isinstance(orders,
\* list), isinstance(fbo_res, list)
WbOrdersFetch ==
    /\ pg.op = "wb_get_all_orders" /\ pg.pc = "request"
    /\ \E fbs \in WbBodies, fbo \in WbBodies :
         LET nfbs == IF fbs.shape = "dict" /\ fbs.orders = "list" THEN fbs.n ELSE 0
             nfbo == IF fbo.shape = "list" THEN fbo.n ELSE 0
         IN  Finish(PyNone, [n |-> nfbs + nfbo, token |-> PyNone], "dict")
    /\ adaptersOthersUnchanged

\* WildberriesAPI.get_stock_info: result if isinstance(result, list) else []
WbStockFetch ==
    /\ pg.op = "wb_get_stock_info" /\ pg.pc = "request"
    /\ \E r \in WbBodies :
         Finish(PyNone, [n |-> IF r.shape = "list" THEN r.n ELSE 0, token |-> PyNone], "list")
    /\ adaptersOthersUnchanged

NextFetch ==
    \/ StartFetch
    \/ OzonOrdersFetch
    \/ WbOrdersFetch
    \/ WbStockFetch
    \/ StartLoop
    \/ CardsPage
    \/ StockListPage
    \/ TransactionPage
    \/ OzonSearchPage
    \/ WbSearchPage

SpecFetch == Init /\ [][NextFetch]_vars

\* C19: no fetch operation of either client raises on a 200 response of
\* unexpected structure ("result" a list, null or missing, or a JSON array as
\* the body); it returns its empty or default result.
C19_FetchNeverRaisesOnShape ==
    pg.op \in FetchOps \cup {"get_stock_info"} => pg.pc # "raised"

-----------------------------------------------------------------------------
(* The scheduled jobs over the users: check_new_orders_task,                 *)
(* send_morning_report and check_low_stock_task.  Each walks the users in    *)
(* order; the processing of one user is made of calls that may fail: an      *)
(* adapter call, a database call, a send through safe_send_message.          *)

MaxUsers == 2

JobUsers == 1..MaxUsers

JobNames == {"check_new_orders_task", "send_morning_report", "check_low_stock_task"}

\* _max_attempts of safe_send_message
MaxSendAttempts == 5

\* The calls one part makes for one user, in order.  check_new_orders_task:
\* get_all_orders, is_order_new, safe_send_message, bulk_save_orders for each
\* marketplace.  send_morning_report: the sales of each marketplace, then one
\* message.  check_low_stock_task: get_stock_info, then the message.
Steps(name, u) ==
    CASE name = "check_new_orders_task" ->
            IF u = "report" THEN <<>> ELSE <<"adapter", "db", "send", "db">>
      [] name = "send_morning_report" ->
            IF u = "report" THEN <<"send">> ELSE <<"adapter", "db">>
      [] name = "check_low_stock_task" ->
            IF u = "report" THEN <<>> ELSE <<"adapter", "send">>
      [] OTHER -> <<>>

\* asyncio.gather runs _process_wb_orders and _process_ozon_orders together;
\* the other two jobs run the parts one after the other
Gathered(name) == name = "check_new_orders_task"

UnitDone(u) == job.unit[u].i > Len(Steps(job.name, u))

StepOf(u) == Steps(job.name, u)[job.unit[u].i]

MayRun(u) ==
    /\ job.pc = "user"
    /\ ~UnitDone(u)
    /\ Gathered(job.name) \/ \A k \in 1..Len(Units) :
                                 (\E j \in (k + 1)..Len(Units) : Units[j] = u) => UnitDone(Units[k])

jobsOthersUnchanged == UNCHANGED <<dialect, pollVars, prodVars, req, pg, fx, snd, tx, tax_rate_default>>

\* The scheduler fires a job: users = await _load_users_for_tasks()
RunJob ==
    \E name \in JobNames :
        /\ job.pc \in {"off", "done"}
        /\ job' = [NoJob EXCEPT !.name = name, !.pc = "user", !.ui = 1]
        /\ jobsOthersUnchanged

\* Without its own "except Exception" the exception of one part would leave
\* the loop over the users with it
Raised_EndsEveryPart(u) ==
    [job EXCEPT !.unit = [w \in DOMAIN job.unit |->
                            [job.unit[w] EXCEPT !.i = Len(Steps(job.name, w)) + 1,
                                                !.failed = StepOf(u)]]]

\* A call of part u raises: the "except Exception" around the part logs the
\* error and ends this part, and asyncio.gather(return_exceptions=True) lets
\* the other part run on
Raised(u) ==
    [job EXCEPT !.unit[u].i = Len(Steps(job.name, u)) + 1,
                !.unit[u].failed = StepOf(u)]

\* An adapter or database call of the part: it returns, or it raises
UnitCall(u) ==
    /\ MayRun(u)
    /\ StepOf(u) \in {"adapter", "db"}
    /\ \E raises \in BOOLEAN :
         job' = IF raises THEN Raised(u) ELSE [job EXCEPT !.unit[u].i = @ + 1]
    /\ jobsOthersUnchanged

\* safe_send_message: "async with sem" takes one permit; the call made again
\* after TelegramRetryAfter is made inside the block, so it takes a further
\* permit while the earlier ones are still held
SemAcquire(u) ==
    /\ MayRun(u)
    /\ StepOf(u) = "send"
    /\ job.unit[u].phase = "run"
    /\ job.sem > 0
    /\ job' = [job EXCEPT !.sem = @ - 1, !.unit[u].held = @ + 1,
                          !.unit[u].phase = "sending"]
    /\ jobsOthersUnchanged

SendOutcomes == {"sent", "TelegramRetryAfter", "TelegramForbiddenError", "Exception"}

\* Every return of safe_send_message leaves its "async with" block and the
\* blocks of the calls that made it
Release(u, failed) ==
    [job EXCEPT !.sem = @ + job.unit[u].held,
                !.unit[u] = [NoUnit EXCEPT !.i = job.unit[u].i + 1, !.failed = failed]]

\* bot.send_message answers
BotSendMessage(u) ==
    /\ MayRun(u)
    /\ StepOf(u) = "send"
    /\ job.unit[u].phase = "sending"
    /\ \E outcome \in SendOutcomes :
         job' = CASE outcome = "sent" -> Release(u, "none")
                  [] outcome = "TelegramRetryAfter" /\ job.unit[u].attempt < MaxSendAttempts ->
                        [job EXCEPT !.unit[u].attempt = @ + 1, !.unit[u].phase = "run"]
                  [] OTHER -> Release(u, "send")
    /\ jobsOthersUnchanged

\* The loop moves to the next user when every part of this one has ended
UserDone ==
    /\ job.pc = "user"
    /\ \A k \in 1..Len(Units) : UnitDone(Units[k])
    /\ job' = [job EXCEPT !.processed = @ \cup {job.ui},
                          !.ui = @ + 1,
                          !.pc = IF job.ui = MaxUsers THEN "done" ELSE "user",
                          !.unit = NoJob.unit]
    /\ jobsOthersUnchanged

NextJobs ==
    \/ RunJob
    \/ \E u \in {"wb", "ozon", "report"} :
          \/ UnitCall(u)
          \/ SemAcquire(u)
          \/ BotSendMessage(u)
    \/ UserDone

SpecJobs == Init /\ [][NextJobs]_vars

\* Every call returns or raises, and a coroutine that can run is run
SpecJobsFair == SpecJobs /\ WF_vars(NextJobs)

\* C20: whatever fails while one user is processed (adapter error, database
\* error, send error), every user of the batch is processed in the end: a job
\* that was started reaches its last user and finishes.
C20_FailureNeverStopsTheBatch ==
    [](job.pc = "user" => <>(job.pc = "done" /\ job.processed = JobUsers))

\* C21: for a user with both marketplaces check_new_orders_task runs the two
\* parts together and awaits both: a step in which one part fails leaves the
\* other part as it was, both parts can run from the start, and the loop moves
\* to the next user only when both have ended.
C21_FailureInOnePartLeavesTheOther ==
    [][(job.name = "check_new_orders_task" /\ job.pc = "user") =>
          /\ \A u, w \in {"wb", "ozon"} :
                (u # w /\ job.unit[u].failed = "none" /\ job'.unit[u].failed # "none")
                    => job'.unit[w] = job.unit[w]
          /\ (job.unit["wb"].i = 1 /\ job.unit["ozon"].i = 1) => (MayRun("wb") /\ MayRun("ozon"))
          /\ job'.ui # job.ui => (UnitDone("wb") /\ UnitDone("ozon"))]_vars

\* The WB part failed at its adapter call and the Ozon part ran to its end
C21_Witness ==
    /\ job.name = "check_new_orders_task"
    /\ job.unit["wb"].failed = "adapter"
    /\ job.unit["ozon"].failed = "none"
    /\ job.unit["ozon"].i = 5

-----------------------------------------------------------------------------
(* safe_send_message under concurrent callers: the scheduled jobs and the    *)
(* handlers run in one event loop and share the module-level semaphore.      *)

sendersOthersUnchanged == UNCHANGED <<dialect, pollVars, prodVars, req, pg, fx, job, tx, tax_rate_default>>

CanAcquire_Always(permits) == TRUE

\* asyncio.Semaphore.acquire returns only while a permit is left
CanAcquire(permits) == permits > 0

\* A coroutine calls safe_send_message(bot, chat_id, text) with a text
SafeSendMessage(c) ==
    /\ snd.caller[c].pc = "idle"
    /\ snd' = [snd EXCEPT !.caller[c] = [NoCaller EXCEPT !.pc = "acquire"]]
    /\ sendersOthersUnchanged

\* async with sem: of the first call and of every call made again from inside
\* the block after TelegramRetryAfter
AcquireSem(c) ==
    /\ snd.caller[c].pc = "acquire"
    /\ CanAcquire(snd.sem)
    /\ snd' = [snd EXCEPT !.sem = @ - 1,
                          !.caller[c].held = @ + 1,
                          !.caller[c].pc = "sending"]
    /\ sendersOthersUnchanged

\* return: the block of this call and the blocks of the calls that made it
\* are left
ReturnFromSend(c) ==
    [snd EXCEPT !.sem = @ + snd.caller[c].held, !.caller[c] = NoCaller]

\* await bot.send_message(chat_id, part): it is sent, or it raises
SendMessage(c) ==
    /\ snd.caller[c].pc = "sending"
    /\ \E outcome \in SendOutcomes :
         snd' = IF outcome = "TelegramRetryAfter" /\ snd.caller[c].attempt < MaxSendAttempts
                THEN [snd EXCEPT !.caller[c].attempt = @ + 1, !.caller[c].pc = "acquire"]
                ELSE ReturnFromSend(c)
    /\ sendersOthersUnchanged

NextSenders ==
    \E c \in Callers :
        \/ SafeSendMessage(c)
        \/ AcquireSem(c)
        \/ SendMessage(c)

SpecSenders == Init /\ [][NextSenders]_vars

\* The event loop runs every coroutine that can run: bot.send_message answers
\* within its timeout, and asyncio.Semaphore wakes its waiters in the order
\* they came, so a waiter is not passed over for ever while permits come back
SpecSendersFair ==
    /\ SpecSenders
    /\ \A c \in Callers : SF_vars(AcquireSem(c)) /\ WF_vars(SendMessage(c))

InFlight == {c \in Callers : snd.caller[c].pc = "sending"}

\* C22: at every moment at most 5 bot.send_message calls made through
\* safe_send_message are in flight, whatever the number of callers.
C22_AtMostFiveSendsInFlight ==
    /\ Cardinality(InFlight) <= SEM_LIMIT
    /\ snd.sem >= 0

\* Five sends are in flight and a further caller waits for a permit
C22_Witness ==
    /\ Cardinality(InFlight) = SEM_LIMIT
    /\ \E c \in Callers : snd.caller[c].pc = "acquire"
    /\ snd.sem = 0

\* C23: every call of safe_send_message returns in the end, for any number of
\* concurrent callers and any pattern of TelegramRetryAfter answers.
C23_EverySendReturns ==
    \A c \in Callers : [](snd.caller[c].pc # "idle" => <>(snd.caller[c].pc = "idle"))

-----------------------------------------------------------------------------
(* The financial engine: generate_daily_report_text (per-record mode),       *)
(* FinancialProcessor.process_wb_weekly_json (detailed-report mode) and      *)
(* calculate_profit.  Amounts are fixed-point numbers in units of 1/10000    *)
(* with at most two decimals, so that products and quotients stay exact for  *)
(* the inputs below.                                                         *)

\* a * b and a / b * 100 of two fixed-point numbers
Mul(a, b) == (a \div 100) * (b \div 100)
Percent(a, b) == (((a \div 100) * 10000) \div (b \div 100)) * 100

\* round(x, 2) and round(x, 1)
Round2(x) == ((x + 50) \div 100) * 100
Round1(x) == ((x + 500) \div 1000) * 1000

RECURSIVE SeqSum(_)
SeqSum(q) == IF q = <<>> THEN 0 ELSE Head(q) + SeqSum(Tail(q))

\* float(x or default)
FloatOr(x, default) == IF x = 0 THEN default ELSE x

ABC == <<"A","B","C">>
XYZ == <<"X","Y","Z">>

\* get_user_cost_prices: {ARTICLE: {"cost", "tax", "extra"}} of the products
\* the user stores for the marketplace; a later row replaces an earlier one
UserCostPrices(tbl, user_tg_id, mp) ==
    LET mine == {i \in 1..Len(tbl) : tbl[i].user_tg_id = user_tg_id /\ tbl[i].marketplace = mp}
        key(i) == ReportsNormArticle(PyStr(tbl[i].article))
    IN  [a \in {key(i) : i \in mine} |->
            LET i == CHOOSE j \in mine : key(j) = a /\ \A k \in mine : key(k) = a => k <= j
            IN  [cost |-> FloatOr(tbl[i].cost_price, 0),
                 tax |-> FloatOr(tbl[i].tax_rate, DefaultTaxRate),
                 extra |-> FloatOr(tbl[i].extra_costs, 0)]]

\* p_data of one row: the stored values, or cost 0, tax 0.06, extra 0
PData(user_costs, article) ==
    IF article \in DOMAIN user_costs
    THEN [cost |-> FloatOr(user_costs[article].cost, 0),
          tax |-> FloatOr(user_costs[article].tax, DefaultTaxRate),
          extra |-> FloatOr(user_costs[article].extra, 0)]
    ELSE [cost |-> 0, tax |-> DefaultTaxRate, extra |-> 0]

NoTotals == [revenue |-> 0, cost |-> 0, tax |-> 0, extra |-> 0, items |-> 0]

\* The loop of generate_daily_report_text over unified_data
RECURSIVE DailyTotals(_, _, _)
DailyTotals(rows, user_costs, acc) ==
    IF rows = <<>> THEN acc
    ELSE LET row == Head(rows)
             price == SafeFloat(row.price, 0)
             article == ReportsNormArticle(PyOr(row.article, PyStr(NA)))
             p_data == PData(user_costs, article)
         IN  DailyTotals(Tail(rows), user_costs,
                 [revenue |-> acc.revenue + price,
                  cost |-> acc.cost + p_data.cost,
                  tax |-> acc.tax + Mul(price, p_data.tax),
                  extra |-> acc.extra + p_data.extra,
                  items |-> acc.items + 1])

\* generate_daily_report_text: the figures its text shows
GenerateDailyReport(rows, tbl, user_tg_id, mp) ==
    IF rows = <<>> THEN [kind |-> "no_data"]
    ELSE LET t == DailyTotals(rows, UserCostPrices(tbl, user_tg_id, mp), NoTotals)
             net_profit == t.revenue - t.cost - t.tax - t.extra
         IN  [kind |-> "report", revenue |-> t.revenue, cost |-> t.cost, tax |-> t.tax,
              extra |-> t.extra, items |-> t.items, net_profit |-> net_profit,
              roi |-> IF t.cost > 0 THEN Percent(net_profit, t.cost) ELSE 0]

\* doc_type_name: the words "Prodazha" (sale) and "Vozvrat" (return), written
\* in Cyrillic in the source
Sale == "Prodazha"
Return_ == "Vozvrat"

\* Series.sum() of one column of the DataFrame: a key no record holds is no
\* column (KeyError), None and a missing key are NaN and are passed over, a
\* string cannot be added to the numbers (TypeError)
ColumnSum(rows, col) ==
    LET cells == [i \in 1..Len(rows) |-> rows[i][col]]
    IN  IF \A i \in 1..Len(rows) : cells[i] = Absent THEN [ok |-> FALSE, v |-> 0]
        ELSE IF \E i \in 1..Len(rows) : cells[i].t = "str" THEN [ok |-> FALSE, v |-> 0]
        ELSE [ok |-> TRUE,
              v |-> SeqSum([i \in 1..Len(rows) |->
                               IF cells[i].t = "num" THEN cells[i].v ELSE 0])]

IsSale_AnyRow(r) == TRUE

\* df[df['doc_type_name'] == sale]
IsSale(r) == r.doc_type_name = Sale

\* get_user_products_cost: {p.article: p.cost_price} of all the user's products
CostMap(tbl, user_tg_id) ==
    LET mine == {i \in 1..Len(tbl) : tbl[i].user_tg_id = user_tg_id}
    IN  [a \in {tbl[i].article : i \in mine} |->
            LET i == CHOOSE j \in mine : tbl[j].article = a /\ \A k \in mine : tbl[k].article = a => k <= j
            IN  tbl[i].cost_price]

\* df['sa_name'].map(cost_map).fillna(0)
CostOf(cost_map, r) == IF r.sa_name \in DOMAIN cost_map THEN cost_map[r.sa_name] ELSE 0

\* FinancialProcessor.process_wb_weekly_json: None for no data and for any
\* exception, else the aggregates
ProcessWbWeekly(rows, tbl, user_tg_id, tax_rate) ==
    IF rows = <<>> THEN PyNone
    ELSE LET cost_map == CostMap(tbl, user_tg_id)
             revenue == ColumnSum(rows, "ppvz_for_pay")
             delivery == ColumnSum(rows, "delivery_rub")
             penalty == ColumnSum(rows, "penalty")
             penalties == IF \A i \in 1..Len(rows) : rows[i]["penalty"] = Absent
                          THEN [ok |-> TRUE, v |-> 0] ELSE penalty
             retail == ColumnSum(rows, "retail_amount")
             total_tax == Mul(retail.v, tax_rate)
             total_cost == SeqSum([i \in 1..Len(rows) |->
                                     IF IsSale(rows[i]) THEN CostOf(cost_map, rows[i]) ELSE 0])
             net_profit == revenue.v - total_cost - total_tax - penalties.v
         IN  IF ~(revenue.ok /\ delivery.ok /\ penalties.ok /\ retail.ok) THEN PyNone
             ELSE [t |-> "dict",
                   sales_count |-> Cardinality({i \in 1..Len(rows) : rows[i].doc_type_name = Sale}),
                   returns_count |-> Cardinality({i \in 1..Len(rows) : rows[i].doc_type_name = Return_}),
                   revenue |-> Round2(revenue.v),
                   delivery |-> Round2(delivery.v),
                   tax |-> Round2(total_tax),
                   cost |-> Round2(total_cost),
                   profit |-> Round2(net_profit),
                   margin |-> IF revenue.v > 0 THEN Round2(Percent(net_profit, revenue.v)) ELSE 0]

\* calculate_profit for one unit; fees holds commission_percent and logistics
\* (storage and ads_share absent)
CalculateProfit(price, cost_price, tax_rate, fees, extra_costs) ==
    LET tax_amount == Mul(price, tax_rate)
        m_commission == Mul(price, fees.commission_percent \div 100)
        m_fees == m_commission + fees.logistics
        total_expenses == cost_price + tax_amount + m_fees + extra_costs
        net_profit == price - total_expenses
    IN  [net_profit |-> Round2(net_profit),
         roi |-> IF cost_price > 0 THEN Round1(Percent(net_profit, cost_price)) ELSE 0,
         margin |-> IF price > 0 THEN Round1(Percent(net_profit, price)) ELSE 0,
         tax |-> Round2(tax_amount),
         marketplace_fees |-> Round2(m_fees),
         extra_costs |-> Round2(extra_costs)]

\* Inputs of the financial engine

MaxSales == 2

StoredProduct(article, cost_price, tax_rate, extra_costs) ==
    [user_tg_id |-> ProductUser, marketplace |-> WB, article |-> article,
     name |-> DefaultName(article), cost_price |-> cost_price,
     extra_costs |-> extra_costs, tax_rate |-> tax_rate]

\* Product tables as bulk_update_products leaves them: a tax_rate of 0 is
\* stored as 0
StoredTables ==
    {<<>>,
     <<StoredProduct(ABC, Num(400, 0), Num(0, 600), Num(50, 0))>>,
     <<StoredProduct(ABC, Num(400, 0), 0, Num(50, 0))>>,
     <<StoredProduct(ABC, 0, Num(0, 2000), 0)>>}

\* Rows of unified_data
SaleRow(article, price) == [article |-> article, price |-> price]

SaleRows ==
    {SaleRow(PyStr(ABC), PyNum(Num(1000, 0))),
     SaleRow(PyStr(<<"a","b","c">>), PyStr(<<"1"," ","0","0","0",",","5">>)),
     SaleRow(PyStr(XYZ), PyNum(Num(500, 0))),
     SaleRow(PyStr(ABC), PyStr(<<"x">>)),
     SaleRow(PyNone, PyNone)}

\* Records of the detailed report
ReportRow(sa_name, doc_type_name, ppvz_for_pay, delivery_rub, retail_amount, penalty) ==
    [sa_name |-> sa_name, doc_type_name |-> doc_type_name, ppvz_for_pay |-> ppvz_for_pay,
     delivery_rub |-> delivery_rub, retail_amount |-> retail_amount, penalty |-> penalty]

ReportRows ==
    {ReportRow(ABC, Sale, PyNum(Num(800, 0)), PyNum(Num(50, 0)), PyNum(Num(1000, 0)), Absent),
     ReportRow(ABC, Return_, PyNum(Num(200, 0)), PyNum(Num(50, 0)), PyNum(Num(300, 0)),
               PyNum(Num(10, 0))),
     ReportRow(ABC, Sale, PyStr(<<"x">>), PyNum(Num(50, 0)), PyNum(Num(1000, 0)), Absent),
     ReportRow(XYZ, Sale, PyNone, PyNum(0), PyNum(Num(500, 0)), Absent),
     ReportRow(ABC, Sale, PyNum(0), PyNum(0), PyNum(0), PyNum(0))}

SeqsOf(S) == UNION {[1..k -> S] : k \in 0..MaxSales}

Fees == {[commission_percent |-> 0, logistics |-> 0],
         [commission_percent |-> Num(10, 0), logistics |-> Num(50, 0)]}

ProfitInputs ==
    [price : {0, Num(1000, 0)}, cost_price : {0, Num(400, 0)}, tax_rate : {DefaultTaxRate},
     fees : Fees, extra_costs : {0, Num(50, 0)}]

FinanceInputs ==
    {Call("generate_daily_report_text", rows) : rows \in SeqsOf(SaleRows)}
        \cup {Call("process_wb_weekly_json", rows) : rows \in SeqsOf(ReportRows)}
        \cup {Call("calculate_profit", a) : a \in ProfitInputs}

\* A function of the financial engine is about to be called, over a stored
\* product table
InitFinance ==
    /\ dialect \in Dialects
    /\ InitPoll
    /\ products \in StoredTables
    /\ lastCall = NoCall
    /\ InitRequest
    /\ InitAdapters
    /\ fx \in FinanceInputs
    /\ InitJobs
    /\ InitSenders
    /\ InitSessions
    /\ InitSettings

ApplyDailyReport ==
    /\ fx.f = "generate_daily_report_text" /\ ~fx.done
    /\ Returns(GenerateDailyReport(fx.arg, products, ProductUser, WB))

ApplyWeeklyReport ==
    /\ fx.f = "process_wb_weekly_json" /\ ~fx.done
    /\ Returns(ProcessWbWeekly(fx.arg, products, ProductUser, DefaultTaxRate))

ApplyCalculateProfit ==
    /\ fx.f = "calculate_profit" /\ ~fx.done
    /\ Returns(CalculateProfit(fx.arg.price, fx.arg.cost_price, fx.arg.tax_rate,
                               fx.arg.fees, fx.arg.extra_costs))

NextFinance ==
    \/ ApplyDailyReport
    \/ ApplyWeeklyReport
    \/ ApplyCalculateProfit

SpecFinance == InitFinance /\ [][NextFinance]_vars

-----------------------------------------------------------------------------
(* Claims about the financial engine *)

\* The stored product of a sale row, if any
StoredFor(row) ==
    {i \in 1..Len(products) :
        products[i].article = ReportsNormArticle(PyOr(row.article, PyStr(NA)))}

ProductField(row, field, default) ==
    IF StoredFor(row) = {} THEN default
    ELSE products[CHOOSE i \in StoredFor(row) : TRUE][field]

\* C24: per-record aggregation accumulates revenue = sum of price, cost = sum
\* of product.cost_price, tax = sum of price * product.tax_rate and extra =
\* sum of product.extra_costs, with cost 0, tax 0.06, extra 0 only for articles
\* without a stored product, and net_profit = revenue - cost - tax - extra; one
\* row {ABC, 1000} with product {400, 0.06, 50} gives 1000, 400, 60, 50, 490.
C24_PerRecordAggregation ==
    (fx.f = "generate_daily_report_text" /\ fx.done /\ fx.arg # <<>>) =>
        LET rows == fx.arg
            price(i) == SafeFloat(rows[i].price, 0)
            revenue == SeqSum([i \in 1..Len(rows) |-> price(i)])
            cost == SeqSum([i \in 1..Len(rows) |-> ProductField(rows[i], "cost_price", 0)])
            tax == SeqSum([i \in 1..Len(rows) |->
                             Mul(price(i), ProductField(rows[i], "tax_rate", DefaultTaxRate))])
            extra == SeqSum([i \in 1..Len(rows) |-> ProductField(rows[i], "extra_costs", 0)])
        IN  /\ fx.out.revenue = revenue
            /\ fx.out.cost = cost
            /\ fx.out.tax = tax
            /\ fx.out.extra = extra
            /\ fx.out.net_profit = revenue - cost - tax - extra
            /\ (/\ rows = <<SaleRow(PyStr(ABC), PyNum(Num(1000, 0)))>>
                /\ products = <<StoredProduct(ABC, Num(400, 0), Num(0, 600), Num(50, 0))>>)
                   => /\ fx.out.revenue = Num(1000, 0) /\ fx.out.cost = Num(400, 0)
                      /\ fx.out.tax = Num(60, 0) /\ fx.out.extra = Num(50, 0)
                      /\ fx.out.net_profit = Num(490, 0)

ZeroAggregates ==
    [t |-> "dict", sales_count |-> 0, returns_count |-> 0, revenue |-> 0, delivery |-> 0,
     tax |-> 0, cost |-> 0, profit |-> 0, margin |-> 0]

\* C25: profit computation on an empty record set returns all-zero aggregates
\* and never fails with a division error; margin is 0 whenever revenue is 0
\* and roi is 0 whenever cost is 0.
C25_EmptySetGivesZeroAggregates ==
    fx.done =>
        /\ (fx.f = "process_wb_weekly_json" /\ fx.arg = <<>>) => fx.out = ZeroAggregates
        /\ (fx.f = "process_wb_weekly_json" /\ fx.arg # <<>> /\ fx.out # PyNone
                /\ fx.out.revenue = 0) => fx.out.margin = 0
        /\ (fx.f = "generate_daily_report_text" /\ fx.arg # <<>> /\ fx.out.cost = 0)
                => fx.out.roi = 0
        /\ (fx.f = "calculate_profit" /\ fx.arg.price = 0) => fx.out.margin = 0
        /\ (fx.f = "calculate_profit" /\ fx.arg.cost_price = 0) => fx.out.roi = 0

\* The number in a cell of the detailed report, 0 for a cell without one
CellValue(cell) == IF cell.t = "num" THEN cell.v ELSE 0

StoredCost(sa_name) ==
    IF \E i \in 1..Len(products) : products[i].article = sa_name
    THEN products[CHOOSE i \in 1..Len(products) : products[i].article = sa_name].cost_price
    ELSE 0

C27_GarbledFieldCountsAsZero ==
    (fx.done /\ fx.arg # <<>>) =>
        /\ fx.f = "generate_daily_report_text" =>
              /\ fx.out.kind = "report"
              /\ fx.out.items = Len(fx.arg)
              /\ fx.out.revenue =
                    SeqSum([i \in 1..Len(fx.arg) |->
                              IF fx.arg[i].price.t = "num" THEN fx.arg[i].price.v
                              ELSE IF fx.arg[i].price = PyStr(<<"1"," ","0","0","0",",","5">>)
                                   THEN Num(1000, 5000)
                              ELSE 0])
        /\ fx.f = "process_wb_weekly_json" =>
              /\ fx.out # PyNone
              /\ fx.out.revenue =
                    SeqSum([i \in 1..Len(fx.arg) |-> CellValue(fx.arg[i]["ppvz_for_pay"])])

-----------------------------------------------------------------------------
(* db_functions.py: the two batch writers called with mixed batches *)

OrderDict(order_id, marketplace, user_id) ==
    [order_id |-> order_id, marketplace |-> marketplace, user_id |-> user_id]

\* Elements of orders_data: two complete rows, a row whose user_id is a digit
\* string, rows without order_id or user_id, and a row whose user_id is no number
OrderElements ==
    {OrderDict(PyStr(<<"7">>), PyStr(WB), PyInt(1)),
     OrderDict(PyStr(<<"8">>), PyStr(OZON), PyStr(<<"2">>)),
     OrderDict(PyNone, PyStr(WB), PyInt(1)),
     OrderDict(PyStr(<<"9">>), PyStr(WB), PyNone),
     OrderDict(PyStr(<<"9">>), PyStr(WB), PyStr(<<"x">>))}

MaxBatch == 2

OrderBatches == UNION {[1..k -> OrderElements] : k \in 0..MaxBatch}

CallBulkSaveOrders ==
    \E orders_data \in OrderBatches :
        /\ orders' = BulkSaveOrders(dialect, orders, orders_data)
        /\ lastCall' = [op |-> "bulk_save_orders", orders_data |-> orders_data,
                        before |-> orders]
        /\ UNCHANGED <<dialect, notified, renotified, cyc, task, prevRun, cycles,
                       products, req, auxVars>>

NextBatches == CallBulkSaveOrders \/ CallBulkUpdateProducts

SpecBatches == Init /\ [][NextBatches]_vars

\* A row the loop of bulk_save_orders neither skips nor fails to convert
WellFormedOrder(o) ==
    /\ SafeStr(o.order_id, OrderIdMaxLen, <<>>) # <<>>
    /\ NormMarketplace(o.marketplace) # <<>>
    /\ o.user_id.t # "none"
    /\ PyIntOf(o.user_id).ok

OrderPersisted(o) ==
    HasOrder(orders, SafeStr(o.order_id, OrderIdMaxLen, <<>>),
             NormMarketplace(o.marketplace), PyIntOf(o.user_id).v)

ProductPersisted(user_tg_id, p) ==
    LET c == CleanProduct(user_tg_id, p)
    IN  FindProduct(products, user_tg_id, c.row.marketplace, c.row.article) # {}

\* C28 (orders): after bulk_save_orders(orders_data) every well-formed row of
\* orders_data is stored in the orders table, whatever other rows the batch held.
C28_OrdersBatchPersisted ==
    lastCall.op = "bulk_save_orders" =>
        \A i \in 1..Len(lastCall.orders_data) :
            WellFormedOrder(lastCall.orders_data[i]) => OrderPersisted(lastCall.orders_data[i])

\* C28 (products): after bulk_update_products(user, products_list) every row of
\* products_list with a marketplace and an article is stored in the products table.
C28_ProductsBatchPersisted ==
    lastCall.op = "bulk_update_products" =>
        \A i \in 1..Len(lastCall.products_list) :
            ~CleanProduct(lastCall.user_tg_id, lastCall.products_list[i]).skip
                => ProductPersisted(lastCall.user_tg_id, lastCall.products_list[i])

\* C28: in bulk_save_orders and bulk_update_products a malformed row never blocks
\* the rest of the batch: every well-formed row of the same call is persisted.
C28_MalformedRowNeverBlocksBatch ==
    C28_OrdersBatchPersisted /\ C28_ProductsBatchPersisted

\* An element of products_list with a non-empty marketplace and article
HasMarketplaceAndArticle(p) ==
    /\ IsDict(p)
    /\ NormMarketplace(p.marketplace) # <<>>
    /\ NormArticle(p.article) # <<>>

-----------------------------------------------------------------------------
(* reports.py: generate_stock_report, and its two callers *)

\* The default of the parameter "threshold" of generate_stock_report
StockReportDefaultThreshold == 10

\* check_low_stock_task: getattr(user, "stock_threshold", 5) or 5
TaskDefaultThreshold == 5

\* low_stock_lines[:20]
StockReportMaxLines == 20

Wildberries == <<"W","i","l","d","b","e","r","r","i","e","s">>
Ozon == <<"O","z","o","n">>

\* int(x or 0)
IntOr0(x) == IF Truthy(x) THEN x.v ELSE 0

\* sum(int(s.get("present", 0) or 0) for s in inner if isinstance(s, dict))
RECURSIVE SumPresent(_)
SumPresent(inner) ==
    IF inner = <<>> THEN 0
    ELSE (IF Head(inner).t = "dict" THEN IntOr0(Head(inner).present) ELSE 0)
         + SumPresent(Tail(inner))

\* total_qty of one item
TotalQty(mp_key, item) ==
    IF mp_key = <<"o","z","o","n">>
    THEN LET stocks == item.stocks
         IN  IF stocks.t = "dict"
             THEN IF stocks.stocks.t = "list" THEN SumPresent(stocks.stocks.v)
                  ELSE IntOr0(stocks.present)
             ELSE IF stocks.t = "list" THEN SumPresent(stocks.v)
             ELSE IntOr0(item.fbs_stocks) + IntOr0(item.fbo_stocks)
    ELSE IntOr0(item.quantity)

\* article of one item (the items hold no "id", "product_id" or "article" key)
StockArticle(mp_key, item) ==
    IF mp_key = <<"o","z","o","n">>
    THEN ReportsNormArticle(PyOr(item.offer_id, PyStr(NA)))
    ELSE ReportsNormArticle(PyOr(item.nmId, PyStr(NA)))

\* A generate_stock_report that lists only the items strictly below the threshold
GenerateStockReport_StrictlyBelow(marketplace, items, threshold) ==
    LET mp_key == Strip(Lower(Strip(marketplace)))
        threshold_int == IF PyIntOf(threshold).ok THEN PyIntOf(threshold).v
                         ELSE StockReportDefaultThreshold
        all == [i \in 1..Len(items) |->
                   [article |-> StockArticle(mp_key, items[i]),
                    total_qty |-> TotalQty(mp_key, items[i])]]
        low_stock_lines == SelectSeq(all, LAMBDA l : l.total_qty < threshold_int)
    IN  IF items = <<>> \/ low_stock_lines = <<>> THEN PyStr(<<>>)
        ELSE [t |-> "text", marketplace |-> Strip(marketplace),
              threshold |-> threshold_int,
              lines |-> SubSeq(low_stock_lines, 1,
                               Min(Len(low_stock_lines), StockReportMaxLines))]

\* generate_stock_report(marketplace, items, threshold): the empty string, or the
\* text as a record of the threshold its header names and the lines it lists
GenerateStockReport(marketplace, items, threshold) ==
    LET mp_key == Strip(Lower(Strip(marketplace)))
        threshold_int == IF PyIntOf(threshold).ok THEN PyIntOf(threshold).v
                         ELSE StockReportDefaultThreshold
        all == [i \in 1..Len(items) |->
                   [article |-> StockArticle(mp_key, items[i]),
                    total_qty |-> TotalQty(mp_key, items[i])]]
        low_stock_lines == SelectSeq(all, LAMBDA l : l.total_qty <= threshold_int)
    IN  IF items = <<>> \/ low_stock_lines = <<>> THEN PyStr(<<>>)
        ELSE [t |-> "text", marketplace |-> Strip(marketplace),
              threshold |-> threshold_int,
              lines |-> SubSeq(low_stock_lines, 1,
                               Min(Len(low_stock_lines), StockReportMaxLines))]

\* One source of one user in check_low_stock_task: the report sent, or None
CheckLowStock(user, mp_name, stocks) ==
    LET threshold0 == PyOr(user.stock_threshold, PyInt(TaskDefaultThreshold))
        threshold == IF PyIntOf(threshold0).ok THEN PyIntOf(threshold0).v
                     ELSE TaskDefaultThreshold
    IN  IF stocks = <<>> THEN PyNone
        ELSE LET report_text == GenerateStockReport(mp_name, stocks, PyInt(threshold))
             IN  IF Truthy(report_text) THEN report_text ELSE PyNone

\* handlers/reports.py process_orders: generate_stock_report(marketplace_name, stocks)
ProcessOrdersStockReport(user, marketplace_name, stocks) ==
    GenerateStockReport(marketplace_name, stocks, PyInt(StockReportDefaultThreshold))

\* Inputs

StockUser(stock_threshold) == [tg_id |-> 1, stock_threshold |-> stock_threshold]

StockUsers == {StockUser(t) : t \in {PyNone, PyInt(0), PyInt(3), PyInt(5), PyInt(12)}}

WbStockItem(nmId, quantity) == [t |-> "dict", nmId |-> nmId, quantity |-> quantity]

WbStockItems ==
    {WbStockItem(PyInt(1), q) :
        q \in {PyNone, PyInt(2), PyInt(4), PyInt(5), PyInt(7), PyInt(11), PyInt(30)}}

Present(n) == [t |-> "dict", present |-> PyInt(n)]

OzonStockItem(offer_id, stocks, fbs_stocks, fbo_stocks) ==
    [t |-> "dict", offer_id |-> offer_id, stocks |-> stocks,
     fbs_stocks |-> fbs_stocks, fbo_stocks |-> fbo_stocks]

OzonStockItems ==
    {OzonStockItem(PyStr(<<"a">>), [t |-> "dict", stocks |-> PyNone, present |-> PyInt(4)],
                   PyNone, PyNone),
     OzonStockItem(PyStr(<<"b">>),
                   [t |-> "dict", stocks |-> [t |-> "list", v |-> <<Present(3), Present(4)>>],
                    present |-> PyNone],
                   PyNone, PyNone),
     OzonStockItem(PyStr(<<"c">>), [t |-> "list", v |-> <<Present(11), PyNone>>],
                   PyNone, PyNone),
     OzonStockItem(PyNone, PyNone, PyInt(1), PyInt(1))}

MaxStockItems == 2

StockInputs ==
    {Call(f, [user |-> u, marketplace |-> Wildberries, stocks |-> st]) :
        f \in {"check_low_stock_task", "process_orders"}, u \in StockUsers,
        st \in UNION {[1..k -> WbStockItems] : k \in 0..MaxStockItems}}
    \cup
    {Call(f, [user |-> u, marketplace |-> Ozon, stocks |-> st]) :
        f \in {"check_low_stock_task", "process_orders"}, u \in StockUsers,
        st \in UNION {[1..k -> OzonStockItems] : k \in 0..MaxStockItems}}

InitStock ==
    /\ dialect \in Dialects
    /\ InitPoll
    /\ InitProducts
    /\ InitRequest
    /\ InitAdapters
    /\ fx \in StockInputs
    /\ InitJobs
    /\ InitSenders
    /\ InitSessions
    /\ InitSettings

ApplyCheckLowStock ==
    /\ fx.f = "check_low_stock_task" /\ ~fx.done
    /\ Returns(CheckLowStock(fx.arg.user, fx.arg.marketplace, fx.arg.stocks))

ApplyProcessOrders ==
    /\ fx.f = "process_orders" /\ ~fx.done
    /\ Returns(ProcessOrdersStockReport(fx.arg.user, fx.arg.marketplace, fx.arg.stocks))

NextStock == ApplyCheckLowStock \/ ApplyProcessOrders

SpecStock == InitStock /\ [][NextStock]_vars

\* The threshold the user configured, 5 when none is configured
ConfiguredThreshold(user) ==
    IF user.stock_threshold.t = "none" THEN 5 ELSE user.stock_threshold.v

\* The items of a stock list at or below a threshold
LowItems(marketplace, stocks, threshold) ==
    {i \in 1..Len(stocks) : TotalQty(Lower(marketplace), stocks[i]) <= threshold}

\* The report of a finished evaluation lists exactly the items at or below th(user),
\* and is empty when there is none
EvaluatedWith(th(_)) ==
    LET low == LowItems(fx.arg.marketplace, fx.arg.stocks, th(fx.arg.user))
    IN  IF low = {} THEN ~Truthy(fx.out)
        ELSE /\ Truthy(fx.out)
             /\ fx.out.threshold = th(fx.arg.user)
             /\ Len(fx.out.lines) = Cardinality(low)

\* C30: every low-stock evaluation uses the user's configured stock threshold, and
\* 5 units when none is configured or supplied by the caller.
C30_EvaluationUsesConfiguredThreshold ==
    (fx.done /\ fx.f \in {"check_low_stock_task", "process_orders"})
        => EvaluatedWith(ConfiguredThreshold)

-----------------------------------------------------------------------------
(* db_functions.py: is_order_new against a table that holds rows *)

StoredOrder(order_id, marketplace, user_id) ==
    [order_id |-> order_id, marketplace |-> marketplace, user_id |-> user_id]

\* The orders table as the process finds it: the rows of the database outlive the
\* process, and ux_orders_order_market_user keeps their keys distinct
StoredOrderRows ==
    {StoredOrder(<<"7">>, WB, 1), StoredOrder(<<"7">>, WB, 2),
     StoredOrder(<<"7">>, OZON, 1), StoredOrder(<<"8">>, WB, 2)}

MaxStoredOrders == 2

StoredOrderTables ==
    {t \in UNION {[1..k -> StoredOrderRows] : k \in 0..MaxStoredOrders} :
        \A i, j \in 1..Len(t) : i # j => OrderKey(t[i]) # OrderKey(t[j])}

OrderIdInputs == {PyStr(<<"7">>), PyStr(<<" ","7"," ">>), PyInt(8), PyStr(<<" ">>), PyNone}
MarketplaceInputs == {PyStr(WB), PyStr(<<"W","B">>), PyStr(OZON), PyStr(<<>>), PyNone}
OrderUsers == {1, 2}

\* is_order_new as called: db_ok = FALSE is a query that raises, which the
\* function answers with False
IsOrderNewCall(tbl, order_id, marketplace, user_tg_id, db_ok) ==
    LET oid == SafeStr(order_id, OrderIdMaxLen, <<>>)
        mp  == NormMarketplace(marketplace)
    IN  IF oid = <<>> \/ mp = <<>> THEN FALSE
        ELSE IF ~db_ok THEN FALSE
        ELSE IsOrderNew(tbl, order_id, marketplace, user_tg_id)

OrderInputs ==
    {Call("is_order_new", [order_id |-> o, marketplace |-> m, user_tg_id |-> u, db_ok |-> ok]) :
        o \in OrderIdInputs, m \in MarketplaceInputs, u \in OrderUsers, ok \in BOOLEAN}

InitOrders ==
    /\ dialect \in Dialects
    /\ orders \in StoredOrderTables
    /\ notified = {}
    /\ renotified = {}
    /\ cyc = [c \in Inst |-> [pc |-> "idle", ui |-> 0]]
    /\ task = [c \in Inst |-> [mp \in MPs |-> OffTask]]
    /\ prevRun = [k \in RunKeys |-> NoRun]
    /\ cycles = 0
    /\ InitProducts
    /\ InitRequest
    /\ InitAdapters
    /\ fx \in OrderInputs
    /\ InitJobs
    /\ InitSenders
    /\ InitSessions
    /\ InitSettings

ApplyIsOrderNew ==
    /\ fx.f = "is_order_new" /\ ~fx.done
    /\ Returns([t |-> "bool",
                v |-> IsOrderNewCall(orders, fx.arg.order_id, fx.arg.marketplace,
                                     fx.arg.user_tg_id, fx.arg.db_ok)])

NextOrders == ApplyIsOrderNew

SpecOrders == InitOrders /\ [][NextOrders]_vars

\* The key under which the arguments of a call are looked up: the stripped text of
\* order_id, the canonical marketplace, the user
KeyOfCall(arg) ==
    <<IF arg.order_id.t = "none" THEN <<>> ELSE Strip(Str(arg.order_id)),
      NormMarketplace(arg.marketplace), arg.user_tg_id>>

RowExists(key) == \E i \in 1..Len(orders) : OrderKey(orders[i]) = key

-----------------------------------------------------------------------------
(* The order of the steps of a poll cycle *)

\* C32: in each poll cycle a new order is checked, then stored, then notified: no
\* notification for an order has been sent while that order is not stored.
C32_NotifiedOnlyWhenStored ==
    \A key \in notified : HasOrder(orders, key[1], key[2], key[3])

-----------------------------------------------------------------------------
(* db_functions.py: the same batch call made twice, by two sessions that may   *)
(* run one after the other or side by side. A session works on the rows it read *)
(* and on its own changes; session.commit() publishes them. SQLite lets one     *)
(* session write at a time; elsewhere the unique constraints ux_products_... and *)
(* ux_orders_... reject the second insert of a key.                             *)

MaxCalls == 2

ProductKey(r) == <<r.user_tg_id, r.marketplace, r.article>>

KeyOf(op, r) == IF op = "bulk_update_products" THEN ProductKey(r) ELSE OrderKey(r)

KeysOf(op, tbl) == {KeyOf(op, tbl[i]) : i \in 1..Len(tbl)}

TableOf(op) == IF op = "bulk_update_products" THEN products ELSE orders

SetTable(op, tbl) ==
    IF op = "bulk_update_products" THEN products' = tbl /\ orders' = orders
    ELSE orders' = tbl /\ products' = products

sessionsOthersUnchanged ==
    UNCHANGED <<dialect, notified, renotified, cyc, task, prevRun, cycles, lastCall,
                req, pg, fx, job, snd, tax_rate_default>>

AllDone == \A w \in Sessions : tx.s[w].pc \in {"idle", "done"}

Called(op, rows, before) ==
    [op |-> op, rows |-> rows, before |-> before, n |-> tx.n + 1,
     s |-> [w \in Sessions |-> [NoSession EXCEPT !.pc = "called"]]]

\* Two callers make the call bulk_update_products(user, products_list)
SubmitBulkUpdate ==
    /\ AllDone /\ tx.n < MaxCalls
    /\ \E products_list \in RowLists :
          tx' = Called("bulk_update_products", products_list, products)
    /\ UNCHANGED <<orders, products>>
    /\ sessionsOthersUnchanged

\* Two callers make the call bulk_save_orders(orders_data)
SubmitBulkSave ==
    /\ AllDone /\ tx.n < MaxCalls
    /\ \E orders_data \in OrderBatches :
          tx' = Called("bulk_save_orders", orders_data, orders)
    /\ UNCHANGED <<orders, products>>
    /\ sessionsOthersUnchanged

\* "if not products_list: return 0" / "if not orders_data: return", else the
\* session opens; on SQLite it waits while another session is writing
OpenSession(w) ==
    /\ tx.s[w].pc = "called"
    /\ tx.rows # <<>> /\ SupportsOnConflict(dialect)
          => \A v \in Sessions : tx.s[v].pc # "run"
    /\ tx' = IF tx.rows = <<>> THEN [tx EXCEPT !.s[w].pc = "done"]
             ELSE [tx EXCEPT !.s[w].pc = "run", !.s[w].view = TableOf(tx.op)]
    /\ UNCHANGED <<orders, products>>
    /\ sessionsOthersUnchanged

\* The wait for the writing session times out: "database is locked" raises, the
\* except branch rolls back
LockTimeout(w) ==
    /\ tx.s[w].pc = "called"
    /\ tx.rows # <<>> /\ SupportsOnConflict(dialect)
    /\ \E v \in Sessions : tx.s[v].pc = "run"
    /\ tx' = [tx EXCEPT !.s[w].pc = "done"]
    /\ UNCHANGED <<orders, products>>
    /\ sessionsOthersUnchanged

\* One iteration of the loop of the call, on the session's view
Statement(w) ==
    /\ tx.s[w].pc = "run"
    /\ tx.s[w].i <= Len(tx.rows)
    /\ LET me == tx.s[w]
           el == tx.rows[me.i]
       IN  IF tx.op = "bulk_update_products"
           THEN LET c == CleanProduct(ProductUser, el)
                IN  IF c.skip THEN tx' = [tx EXCEPT !.s[w].i = @ + 1]
                    ELSE LET key == ProductKey(c.row)
                         IN  tx' = [tx EXCEPT
                                 !.s[w].i = @ + 1,
                                 !.s[w].view = UpsertBulkRow(dialect, me.view, c.row),
                                 !.s[w].added = IF key \in KeysOf(tx.op, me.view) THEN @
                                                ELSE @ \cup {key},
                                 !.s[w].touched = @ \cup {key}]
           ELSE LET r == SaveOneOrder(dialect, me.view, el)
                IN  IF ~r.ok THEN tx' = [tx EXCEPT !.s[w].pc = "done"]
                    ELSE tx' = [tx EXCEPT
                                 !.s[w].i = @ + 1,
                                 !.s[w].view = r.tbl,
                                 !.s[w].added = @ \cup (KeysOf(tx.op, r.tbl)
                                                         \ KeysOf(tx.op, me.view))]
    /\ UNCHANGED <<orders, products>>
    /\ sessionsOthersUnchanged

\* The table after a session's changes are published
Published(op, committed, me) ==
    LET kept == [i \in 1..Len(committed) |->
                    IF KeyOf(op, committed[i]) \in me.touched
                    THEN me.view[CHOOSE j \in 1..Len(me.view) :
                                    KeyOf(op, me.view[j]) = KeyOf(op, committed[i])]
                    ELSE committed[i]]
    IN  kept \o SelectSeq(me.view, LAMBDA r : KeyOf(op, r) \in me.added)

\* "await session.commit()": a key this session added and the other session has
\* published meanwhile raises IntegrityError, and the except branch rolls back
Commit(w) ==
    /\ tx.s[w].pc = "run"
    /\ tx.s[w].i > Len(tx.rows)
    /\ tx' = [tx EXCEPT !.s[w].pc = "done"]
    /\ IF tx.s[w].added \cap KeysOf(tx.op, TableOf(tx.op)) # {}
       THEN UNCHANGED <<orders, products>>
       ELSE SetTable(tx.op, Published(tx.op, TableOf(tx.op), tx.s[w]))
    /\ sessionsOthersUnchanged

NextSessions ==
    \/ SubmitBulkUpdate
    \/ SubmitBulkSave
    \/ \E w \in Sessions :
          \/ OpenSession(w)
          \/ LockTimeout(w)
          \/ Statement(w)
          \/ Commit(w)

SpecSessions == Init /\ [][NextSessions]_vars

\* The table after the call was applied once to the table it found
AppliedOnce ==
    IF tx.op = "bulk_update_products"
    THEN BulkUpdateProducts(dialect, tx.before, ProductUser, tx.rows).tbl
    ELSE BulkSaveOrders(dialect, tx.before, tx.rows)

\* C33: bulk_save_orders and bulk_update_products are idempotent: after the same
\* call was applied twice, one after the other or by two sessions side by side,
\* the orders and products tables are as after applying it once.
C33_TwiceAsOnce ==
    (tx.op # "none" /\ \A w \in Sessions : tx.s[w].pc = "done")
        => TableOf(tx.op) = AppliedOnce

\* Both sessions ran the loop over a batch that stores rows, side by side
C33_Witness ==
    /\ tx.op = "bulk_update_products"
    /\ \A w \in Sessions : tx.s[w].pc = "done" /\ tx.s[w].touched # {}
    /\ tx.s[1].added # {} /\ tx.s[2].added # {}
    /\ products # tx.before

-----------------------------------------------------------------------------
(* db_functions.py: the tax rates that bulk_update_products and               *)
(* set_tax_rate_default store                                                 *)

\* set_tax_rate_default: rate = _safe_float(tax_rate, 0.06);
\* if rate < 0: rate = 0.0; if rate > 1: rate = rate / 100.0
SetTaxRateDefault(tax_rate) ==
    LET r0 == SafeFloat(tax_rate, DefaultTaxRate)
        r1 == IF r0 < 0 THEN 0 ELSE r0
    IN  IF r1 > Num(1, 0) THEN r1 \div 100 ELSE r1

\* Tax inputs: none, fractions, percentages, a negative number, numbers above 100
TaxInputs ==
    {PyNone, PyNum(Num(0, 600)), PyInt(1), PyInt(20), PyInt(100), PyInt(150),
     PyNum(-Num(0, 5000)), PyStr(<<"1","5">>)}

TaxRows ==
    {Dict(PyStr(WB), PyStr(<<"a">>), PyStr(<<"N","1">>), PyInt(0), PyInt(0), t) : t \in TaxInputs}

MaxTaxRows == 2

TaxRowLists == UNION {[1..k -> TaxRows] : k \in 0..MaxTaxRows}

CallBulkUpdateTax ==
    \E products_list \in TaxRowLists :
        LET r == BulkUpdateProducts(dialect, products, ProductUser, products_list)
        IN  /\ products' = r.tbl
            /\ lastCall' = [op |-> "bulk_update_products", user_tg_id |-> ProductUser,
                            products_list |-> products_list, ret |-> r.count,
                            before |-> products]
            /\ UNCHANGED <<dialect, pollVars, req, pg, fx, job, snd, tx, tax_rate_default>>

\* update_user_profile(tg_id, tax_rate_default=rate)
CallSetTaxRateDefault ==
    \E tax_rate \in TaxInputs :
        /\ tax_rate_default' = SetTaxRateDefault(tax_rate)
        /\ lastCall' = [op |-> "set_tax_rate_default", user_tg_id |-> ProductUser,
                        tax_rate |-> tax_rate, before |-> tax_rate_default]
        /\ UNCHANGED <<dialect, pollVars, products, req, pg, fx, job, snd, tx>>

NextTax == CallBulkUpdateTax \/ CallSetTaxRateDefault

SpecTax == Init /\ [][NextTax]_vars

IsRate(x) == 0 <= x /\ x <= Num(1, 0)

\* C34 (products): every stored Product.tax_rate lies in [0, 1].
C34_ProductTaxInUnitInterval ==
    \A i \in 1..Len(products) : IsRate(products[i].tax_rate)

\* C34 (user): the stored User.tax_rate_default lies in [0, 1].
C34_UserTaxInUnitInterval == IsRate(tax_rate_default)

\* C34: after any sequence of bulk_update_products and set_tax_rate_default calls
\* with arbitrary numeric tax inputs, every stored Product.tax_rate and
\* User.tax_rate_default lies in [0, 1].
C34_TaxRatesInUnitInterval ==
    C34_ProductTaxInUnitInterval /\ C34_UserTaxInUnitInterval

-----------------------------------------------------------------------------
(* scheduler_tasks.py: which users the three scheduled tasks write to *)

\* The rows of the users table
UserRecords ==
    [tg_id : {0}, wb_token : {PyNone, PyStr(<<"t">>)},
     ozon_client_id : {PyNone, PyStr(<<"c">>)}, ozon_api_key : {PyStr(<<"k">>)},
     notifications_enabled : BOOLEAN]

UserTables ==
    {[u \in JobUsers |-> [row[u] EXCEPT !.tg_id = u]] : row \in [JobUsers -> UserRecords]}

\* users = await _load_users_for_tasks(); job.sent holds the messages of the run
\* as <<task, chat_id, marketplace>>
InitNotify ==
    /\ dialect \in Dialects
    /\ InitPoll
    /\ InitProducts
    /\ InitRequest
    /\ InitAdapters
    /\ InitFunctions
    /\ job \in {[name |-> "none", pc |-> "off", ui |-> 0, users |-> t, sent |-> {}] :
                   t \in UserTables}
    /\ InitSenders
    /\ InitSessions
    /\ InitSettings

\* The scheduler fires one of the tasks
StartTask ==
    \E name \in JobNames :
        /\ job.pc \in {"off", "done"}
        /\ job' = [job EXCEPT !.name = name, !.pc = "user", !.ui = 1, !.sent = {}]
        /\ jobsOthersUnchanged

\* "if not _notifications_enabled(user): continue"
SkipDisabledUser ==
    /\ job.pc = "user"
    /\ LET user == job.users[job.ui]
       IN  /\ ~_notifications_enabled(user)
           /\ job' = [job EXCEPT !.ui = @ + 1,
                                 !.pc = IF job.ui = MaxUsers THEN "done" ELSE "user"]
    /\ jobsOthersUnchanged

\* The body of the loop for one user. check_new_orders_task and
\* check_low_stock_task may send for each marketplace with credentials (a new
\* order, a low stock); send_morning_report sends one message when a marketplace
\* with credentials had data.
ProcessEnabledUser ==
    /\ job.pc = "user"
    /\ LET user == job.users[job.ui]
       IN  /\ _notifications_enabled(user)
           /\ \E with_news \in SUBSET TasksFor(user) :
                job' = [job EXCEPT
                    !.ui = @ + 1,
                    !.pc = IF job.ui = MaxUsers THEN "done" ELSE "user",
                    !.sent = @ \cup
                        IF job.name = "send_morning_report"
                        THEN IF with_news # {} THEN {<<job.name, user.tg_id, "report">>}
                             ELSE {}
                        ELSE {<<job.name, user.tg_id, mp>> : mp \in with_news}]
    /\ jobsOthersUnchanged

NextNotify == StartTask \/ SkipDisabledUser \/ ProcessEnabledUser

SpecNotify == InitNotify /\ [][NextNotify]_vars

\* C35: no scheduled task (check_new_orders_task, send_morning_report,
\* check_low_stock_task) sends a message to a user whose notifications_enabled
\* flag is false.
C35_NoMessageToDisabledUser ==
    \A m \in job.sent : job.users[m[2]].notifications_enabled

\* A run that wrote to an enabled user and passed over a disabled user who has
\* credentials
C35_Witness ==
    /\ job.pc = "done"
    /\ job.sent # {}
    /\ \E u \in JobUsers :
          /\ ~job.users[u].notifications_enabled
          /\ TasksFor(job.users[u]) # {}

-----------------------------------------------------------------------------
(* The poll cycle against an orders table that holds rows of other users *)

\* The orders table a poll cycle may find: empty, or one stored row
PollStoredTables == {t \in StoredOrderTables : Len(t) <= 1}

InitStoredPoll ==
    /\ dialect \in Dialects
    /\ orders \in PollStoredTables
    /\ notified = {}
    /\ renotified = {}
    /\ cyc = [c \in Inst |-> [pc |-> "idle", ui |-> 0]]
    /\ task = [c \in Inst |-> [mp \in MPs |-> OffTask]]
    /\ prevRun = [k \in RunKeys |-> NoRun]
    /\ cycles = 0
    /\ InitProducts
    /\ InitRequest
    /\ InitAdapters
    /\ InitFunctions
    /\ InitJobs
    /\ InitSenders
    /\ InitSessions
    /\ InitSettings

SpecStoredPoll == InitStoredPoll /\ [][Next]_vars

\* C36: dedup is per user: an order stored for one user never makes is_order_new
\* answer False for another user with the same order_id and marketplace; a run
\* that fetched an order its user has no row for has notified that user of it.
C36_DedupIsPerUser ==
    \A c \in Inst, mp \in MPs :
        LET t == task[c][mp]
        IN  t.pc \in {"save", "done"} =>
                \A order_id \in t.fetched :
                    ~HasOrder(orders, order_id, mp, t.user)
                        => <<order_id, mp, t.user>> \in notified

\* A run notified its user of an order that is stored for another user only
C36_Witness ==
    \E c \in Inst, mp \in MPs :
        LET t == task[c][mp]
        IN  /\ t.pc = "done"
            /\ \E order_id \in t.fetched :
                  /\ <<order_id, mp, t.user>> \in notified
                  /\ ~HasOrder(orders, order_id, mp, t.user)
                  /\ \E i \in 1..Len(orders) :
                        /\ orders[i].order_id = order_id
                        /\ orders[i].marketplace = mp
                        /\ orders[i].user_id # t.user

-----------------------------------------------------------------------------
(* wb_api.py, ozon_api.py: the Retry-After header *)

\* The last sleep followed a transient status that carried a Retry-After value
WithRetryAfter == req.nsleeps > 0 /\ IsTransient(req.last.cause) /\ Truthy(req.last.header)

C38_NoSleepAfterLastAttempt ==
    /\ req.pc = "sleep" => req.attempt < req.max_retries
    /\ req.max_retries >= 1 => req.nsleeps <= req.max_retries - 1

-----------------------------------------------------------------------------
(* scheduler_tasks.py: _split_long_message and the parts safe_send_message    *)
(* sends. A text is a sequence of characters; the limit of 4096 characters is *)
(* scaled down to TextLimit.                                                  *)

TextLimit == 2

MaxTextLen == 4

NL == "\n"

\* text.splitlines(keepends=True)
RECURSIVE SplitLines(_, _)
SplitLines(text, line) ==
    IF text = <<>> THEN (IF line = <<>> THEN <<>> ELSE <<line>>)
    ELSE IF Head(text) = NL THEN <<Append(line, NL)>> \o SplitLines(Tail(text), <<>>)
    ELSE SplitLines(Tail(text), Append(line, Head(text)))

\* while len(line) > limit: parts.append(line[:limit]); line = line[limit:]
RECURSIVE CutLine(_, _)
CutLine(line, limit) ==
    IF Len(line) > limit
    THEN LET r == CutLine(SubSeq(line, limit + 1, Len(line)), limit)
         IN  [parts |-> <<SubSeq(line, 1, limit)>> \o r.parts, rest |-> r.rest]
    ELSE [parts |-> <<>>, rest |-> line]

\* The loop over the lines
RECURSIVE SplitLoop(_, _, _, _)
SplitLoop(ls, chunk, parts, limit) ==
    IF ls = <<>> THEN (IF chunk # <<>> THEN Append(parts, chunk) ELSE parts)
    ELSE LET line == Head(ls)
         IN  IF Len(chunk) + Len(line) <= limit
             THEN SplitLoop(Tail(ls), chunk \o line, parts, limit)
             ELSE LET p1 == IF chunk # <<>> THEN Append(parts, chunk) ELSE parts
                      c == CutLine(line, limit)
                  IN  SplitLoop(Tail(ls), c.rest, p1 \o c.parts, limit)

\* _split_long_message(text, limit)
SplitLongMessage(text, limit) ==
    IF text = <<>> THEN << <<>> >>
    ELSE IF Len(text) <= limit THEN <<text>>
    ELSE SplitLoop(SplitLines(text, <<>>), <<>>, <<>>, limit)

Texts == UNION {[1..k -> {"a", NL}] : k \in 0..MaxTextLen}

NoSend == [sem |-> SEM_LIMIT, pc |-> "idle", text |-> <<>>, parts |-> <<>>, i |-> 1,
           attempt |-> 1, held |-> 0, log |-> <<>>, ended |-> "none"]

InitParts ==
    /\ dialect \in Dialects
    /\ InitPoll
    /\ InitProducts
    /\ InitRequest
    /\ InitAdapters
    /\ InitFunctions
    /\ InitJobs
    /\ snd = NoSend
    /\ InitSessions
    /\ InitSettings

\* safe_send_message(bot, chat_id, text): "if not text: return", else the parts
CallSafeSend ==
    /\ snd.pc \in {"idle", "returned"}
    /\ \E text \in Texts :
          snd' = IF text = <<>>
                 THEN [NoSend EXCEPT !.pc = "returned", !.ended = "empty"]
                 ELSE [NoSend EXCEPT !.pc = "acquire", !.text = text,
                                     !.parts = SplitLongMessage(text, TextLimit)]
    /\ sendersOthersUnchanged

\* "async with sem", of the first call and of each call made again
EnterSem ==
    /\ snd.pc = "acquire"
    /\ CanAcquire(snd.sem)
    /\ snd' = [snd EXCEPT !.sem = @ - 1, !.held = @ + 1, !.pc = "sending", !.i = 1]
    /\ sendersOthersUnchanged

\* Every return leaves the "async with" blocks of the call and of its callers
Left(ended) == [snd EXCEPT !.pc = "returned", !.sem = @ + snd.held, !.held = 0,
                           !.ended = ended]

\* await bot.send_message(chat_id, part): snd.log lists the parts the bot accepted
SendPart ==
    /\ snd.pc = "sending"
    /\ snd.i <= Len(snd.parts)
    /\ \E outcome \in SendOutcomes :
          snd' = CASE outcome = "sent" ->
                        [snd EXCEPT !.i = @ + 1, !.log = Append(@, snd.i)]
                   [] outcome = "TelegramRetryAfter" /\ snd.attempt < MaxSendAttempts ->
                        [snd EXCEPT !.attempt = @ + 1, !.pc = "acquire"]
                   [] OTHER -> Left(outcome)
    /\ sendersOthersUnchanged

\* The loop over the parts is exhausted
FinishSend ==
    /\ snd.pc = "sending"
    /\ snd.i > Len(snd.parts)
    /\ snd' = Left("sent")
    /\ sendersOthersUnchanged

NextParts == CallSafeSend \/ EnterSem \/ SendPart \/ FinishSend

SpecParts == InitParts /\ [][NextParts]_vars

\* C39: within one safe_send_message call every part of the split message is
\* passed to bot.send_message in order and at most once, also when a flood-control
\* response interrupts the sending: the parts the bot accepted are strictly
\* ascending, and a call that ran to its end sent them all.
C39_PartsInOrderAtMostOnce ==
    /\ \A j, k \in 1..Len(snd.log) : j < k => snd.log[j] < snd.log[k]
    /\ (snd.pc = "returned" /\ snd.ended = "sent") =>
            snd.log = [k \in 1..Len(snd.parts) |-> k]

-----------------------------------------------------------------------------
(* scheduler_tasks.py: when check_low_stock_task notifies *)

\* The threshold check_low_stock_task passes on: user.stock_threshold, or 5 in
\* place of None and of 0
ThresholdInUse(user) == PyOr(user.stock_threshold, PyInt(TaskDefaultThreshold)).v

\* C40: check_low_stock_task sends a low-stock notification to a user for a
\* marketplace if and only if at least one fetched stock item has a total
\* quantity less than or equal to the threshold in use.
C40_NotifiesIffSomeItemAtOrBelowThreshold ==
    (fx.done /\ fx.f = "check_low_stock_task") =>
        (Truthy(fx.out) <=>
            LowItems(fx.arg.marketplace, fx.arg.stocks, ThresholdInUse(fx.arg.user)) # {})

\* A notification sent for a list with an item exactly at the threshold and none below
C40_Witness ==
    /\ fx.done /\ fx.f = "check_low_stock_task"
    /\ Truthy(fx.out)
    /\ \E i \in 1..Len(fx.arg.stocks) :
          TotalQty(Lower(fx.arg.marketplace), fx.arg.stocks[i]) = ThresholdInUse(fx.arg.user)
    /\ \A i \in 1..Len(fx.arg.stocks) :
          TotalQty(Lower(fx.arg.marketplace), fx.arg.stocks[i]) >= ThresholdInUse(fx.arg.user)

=============================================================================
